---- MODULE Spec2Model ----
(***************************************************************************)
(* A model of the PII detection / merge / redaction core of the            *)
(* repository: GPT4oMiniRedactor (src/python/LLM/gpt4o_redactor.py),       *)
(* AzureAIRedactor (src/python/NLP/azure_ai_redactor.py) and               *)
(* DemoAzureAIRedactor (src/python/NLP/demo_redactor.py).                  *)
(*                                                                         *)
(* Offsets are 0-based and half-open as in the Python source; sequences    *)
(* are 1-based, so character index k of a text is text[k + 1].             *)
(* Confidences are percentages (0.95 is 95).                               *)
(***************************************************************************)
EXTENDS Integers, Sequences, FiniteSets, TLC

VARIABLES
    text,            \* the text given to the operation
    chunk_size,      \* LLMConfig.chunk_size
    overlap_size,    \* LLMConfig.overlap_size
    pc,              \* position of the running operation
    start,           \* _chunk_text: local start
    end,             \* _chunk_text: local end
    chunks,          \* _chunk_text: local chunks (the list returned)
    chunk_bounds,    \* history: the slice bounds <<start, end>> of each chunk
    all_entities,    \* the candidate list handed to the overlap resolution
    unique_entities, \* the list the overlap resolution returns
    redacted_text,   \* redact_text: local redacted_text
    confidence_threshold, \* LLMConfig / AzureConfig confidence_threshold
    chunk_i,         \* detect_pii_entities: i, the index of the chunk in hand
    provider_log,    \* history: per chunk, what the provider call did
    pii,             \* the span <<a, b>> of the text that is PII (a = b: none)
    offset_adjustment, \* AzureAIRedactor.detect_pii_entities: local
    matches,         \* the regex matches the pattern rules find in the text
    cost_tracker,    \* GPT4oMiniRedactor.cost_tracker of the one instance
    calls,           \* the redact_text calls on the instance, one per caller
    entities_count,  \* _assess_risk_level: argument entities_count
    confidence_scores, \* _assess_risk_level: the keys of confidence_scores
    category_counts, \* analyze_document_risk: local category_counts
    risk_score,      \* analyze_document_risk: local risk_score
    risk_level,      \* the level either risk policy returns
    config,          \* the LLMConfig / AzureConfig handed to a constructor
    client,          \* self.client of the redactor under construction
    detect_calls,    \* history: the detection calls made on the instance
    document_output  \* the tokens a document processor writes, one per entity

configVars == <<text, chunk_size, overlap_size>>
chunkVars == <<start, end, chunks, chunk_bounds>>
mergeVars == <<all_entities, unique_entities, redacted_text>>
detectVars == <<confidence_threshold, chunk_i, provider_log, pii,
                offset_adjustment, matches>>

costVars == <<cost_tracker, calls>>
riskVars == <<entities_count, confidence_scores, category_counts, risk_score,
              risk_level>>

constructVars == <<config, client, detect_calls>>

\* what the detection, merge and redaction steps of one call never touch
documentVars == <<document_output>>

otherVars == <<costVars, riskVars, constructVars, documentVars>>

vars == <<text, chunk_size, overlap_size, pc, start, end, chunks, chunk_bounds,
          all_entities, unique_entities, redacted_text,
          confidence_threshold, chunk_i, provider_log, pii,
          offset_adjustment, matches, cost_tracker, calls,
          entities_count, confidence_scores, category_counts, risk_score,
          risk_level, config, client, detect_calls, document_output>>

(***************************************************************************)
(* Bounds of the model.                                                    *)
(***************************************************************************)
MaxLen == 8           \* longest text given to _chunk_text
MaxChunkSize == 7     \* largest chunk_size configured
FairMaxLen == 5       \* the same two bounds for the runs checked for
FairMaxChunkSize == 3 \* termination

\* Representatives of the character classes the code distinguishes:
\* an ordinary character, a sentence terminator, a whitespace character.
Alphabet == {"a", ".", " "}

Texts(maxlen) == UNION {[1..n -> Alphabet] : n \in 0..maxlen}

\* texts for the operations that never look at character classes: two
\* distinct characters are enough to tell any two positions apart
PlainTexts(maxlen) == UNION {[1..n -> {"a", "."}] : n \in 0..maxlen}

Max(a, b) == IF a >= b THEN a ELSE b
Min(a, b) == IF a <= b THEN a ELSE b

SetMax(S) == CHOOSE x \in S : \A y \in S : y <= x

(***************************************************************************)
(* Python's slicing s[a:b]: a negative index counts from the end, and      *)
(* indices are clamped to [0, len(s)].                                     *)
(***************************************************************************)
PyIndex(i, n) == IF i < 0 THEN Max(n + i, 0) ELSE Min(i, n)

PySlice(s, a, b) ==
    LET lo == PyIndex(a, Len(s))
        hi == PyIndex(b, Len(s))
    IN  IF lo < hi THEN SubSeq(s, lo + 1, hi) ELSE <<>>

(***************************************************************************)
(* re.finditer(r'[.!?]\s+', s): the list of m.end() over the matches.      *)
(* A match begins at every terminator that is followed by whitespace and   *)
(* runs to the end of that whitespace run (\s+ is greedy).                 *)
(***************************************************************************)
IsTerminator(c) == c \in {".", "!", "?"}
IsSpace(c) == c \in {" ", "\t", "\n"}

MatchEnd(s, p) ==
    SetMax({q \in p + 1..Len(s) : \A k \in p + 1..q : IsSpace(s[k])})

SentenceBreaks(s) ==
    {MatchEnd(s, p) : p \in {p \in 1..Len(s) - 1 :
                                IsTerminator(s[p]) /\ IsSpace(s[p + 1])}}

\* the window, in characters, searched backward from the cut (end - 100)
SentenceWindow == 100

(***************************************************************************)
(* One iteration of the while loop of _chunk_text, from `start`.           *)
(***************************************************************************)
ChunkEnd(st) ==
    LET cut == st + chunk_size
    IN  IF cut < Len(text)
        THEN LET search_start == Max(cut - SentenceWindow, st)
                 sentence_breaks == SentenceBreaks(PySlice(text, search_start, cut))
             IN  IF sentence_breaks # {}
                 THEN search_start + SetMax(sentence_breaks)
                 ELSE cut
        ELSE cut

NextStart(e) == IF e < Len(text) THEN e - overlap_size ELSE e

\* The model records at most ChunkCap chunks; a call that returns makes
\* fewer (its start values are pairwise distinct and lie in
\* -overlap_size .. len(text) - 1), so only a call that never returns
\* reaches the cap.
ChunkCap == MaxLen + MaxChunkSize

Record(list, x) == IF Len(list) < ChunkCap THEN Append(list, x) ELSE list

ChunkWhole ==
    /\ pc = "chunk_text"
    /\ Len(text) <= chunk_size
    /\ chunks' = <<text>>
    /\ chunk_bounds' = <<<<0, Len(text)>>>>
    /\ pc' = "chunked"
    /\ UNCHANGED <<configVars, otherVars, start, end, mergeVars, detectVars>>

\* the loop test and the choice of the cut (lines 187-198)
ChunkCut ==
    /\ pc = "chunk_text"
    /\ Len(text) > chunk_size
    /\ start < Len(text)
    /\ end' = ChunkEnd(start)
    /\ pc' = "chunk_cut"
    /\ UNCHANGED <<configVars, otherVars, start, chunks, chunk_bounds, mergeVars, detectVars>>

\* the chunk is appended and start moves on (lines 200-204)
ChunkAppend ==
    /\ pc = "chunk_cut"
    /\ chunks' = Record(chunks, PySlice(text, start, end))
    /\ chunk_bounds' = Record(chunk_bounds, <<start, end>>)
    /\ start' = NextStart(end)
    /\ pc' = "chunk_text"
    /\ UNCHANGED <<configVars, otherVars, end, mergeVars, detectVars>>

ChunkReturn ==
    /\ pc = "chunk_text"
    /\ Len(text) > chunk_size
    /\ start >= Len(text)
    /\ pc' = "chunked"
    /\ UNCHANGED <<configVars, otherVars, chunkVars, mergeVars, detectVars>>

ChunkIdle == start = 0 /\ end = 0 /\ chunks = <<>> /\ chunk_bounds = <<>>
MergeIdle == all_entities = <<>> /\ unique_entities = <<>> /\ redacted_text = <<>>

\* CONFIDENCE_THRESHOLD defaults to 0.8
DefaultThreshold == 80

\* CostTracker(): the dataclass defaults
CostTracker ==
    [input_tokens |-> 0, output_tokens |-> 0, total_cost |-> 0,
     requests_made |-> 0]

CostIdle == cost_tracker = CostTracker /\ calls = <<>>

RiskIdle ==
    /\ entities_count = 0
    /\ confidence_scores = {}
    /\ category_counts = <<>>
    /\ risk_score = 0
    /\ risk_level = ""

\* no constructor has run
ConstructIdle == config = <<>> /\ client = "none" /\ detect_calls = <<>>

\* no document has been written
DocumentIdle == document_output = <<>>

OtherIdle == CostIdle /\ RiskIdle /\ ConstructIdle /\ DocumentIdle

DetectIdle ==
    /\ confidence_threshold = DefaultThreshold
    /\ chunk_i = 0
    /\ provider_log = <<>>
    /\ pii = <<0, 0>>
    /\ offset_adjustment = 0
    /\ matches = <<>>

InitChunk ==
    /\ text \in Texts(MaxLen)
    /\ chunk_size \in 1..MaxChunkSize
    /\ overlap_size \in 0..chunk_size - 1
    /\ pc = "chunk_text"
    /\ ChunkIdle
    /\ MergeIdle
    /\ DetectIdle
    /\ OtherIdle

NextChunk == ChunkWhole \/ ChunkCut \/ ChunkAppend \/ ChunkReturn

SpecChunk == InitChunk /\ [][NextChunk]_vars

InitChunkFair ==
    /\ text \in Texts(FairMaxLen)
    /\ chunk_size \in 1..FairMaxChunkSize
    /\ overlap_size \in 0..chunk_size - 1
    /\ pc = "chunk_text"
    /\ ChunkIdle
    /\ MergeIdle
    /\ DetectIdle
    /\ OtherIdle

\* _chunk_text runs on one thread and nothing else can block it: its loop
\* keeps taking steps while one is possible.
FairSpecChunk == InitChunkFair /\ [][NextChunk]_vars /\ WF_vars(NextChunk)

(***************************************************************************)
(* What a returned chunk list covers.  ChunkRange(i) is the range of       *)
(* character indices of the text that chunk i holds (Python's resolution   *)
(* of the slice text[start:end]); ChunkStart(chs, i) is the value          *)
(* detect_pii_entities adds to the offsets reported for chunk i.           *)
(***************************************************************************)
ChunkRange(i) ==
    LET lo == PyIndex(chunk_bounds[i][1], Len(text))
        hi == PyIndex(chunk_bounds[i][2], Len(text))
    IN  [lo |-> lo, hi |-> Max(lo, hi)]

RECURSIVE ChunkStart(_, _)
ChunkStart(chs, i) ==
    IF i <= 1 THEN 0
    ELSE ChunkStart(chs, i - 1) + (Len(chs[i - 1]) - overlap_size)

Chunked == pc = "chunked"
Split == Len(text) > chunk_size

\* C5: when _chunk_text returns for a text longer than chunk_size, every
\* character index of the text lies inside the range of at least one chunk.
C5_EveryCharacterInAChunk ==
    (Chunked /\ Split) =>
        \A k \in 0..Len(text) - 1 :
            \E i \in 1..Len(chunks) : ChunkRange(i).lo <= k /\ k < ChunkRange(i).hi

\* C6: the chunking loop terminates: _chunk_text eventually returns.
C6_ChunkTextReturns == <>Chunked

\* C7: the value added to the offsets of chunk i equals the index of the
\* text at which chunk i begins (for every chunk that holds any text).
C7_ChunkStartIsWhereChunkBegins ==
    Chunked =>
        \A i \in 1..Len(chunks) :
            chunks[i] # <<>> => ChunkStart(chunks, i) = ChunkRange(i).lo

\* C9: when _chunk_text returns, every span [a, b) of the text no longer
\* than overlap_size lies wholly inside at least one chunk.
C9_ShortSpanInOneChunk ==
    Chunked =>
        \A a \in 0..Len(text), b \in 0..Len(text) :
            (a < b /\ b - a <= overlap_size) =>
                \E i \in 1..Len(chunks) :
                    ChunkRange(i).lo <= a /\ b <= ChunkRange(i).hi

(***************************************************************************)
(* Entities and the overlap-resolution routines.                           *)
(*                                                                         *)
(* An LLM entity is a PIIEntity of gpt4o_redactor.py: start_pos, end_pos,  *)
(* confidence, category.  An Azure entity is a PIIEntity of                *)
(* azure_ai_redactor.py / demo_redactor.py: offset, length,                *)
(* confidence_score, category.                                             *)
(***************************************************************************)
MaxPos == 3         \* largest offset of a candidate entity
MaxCandidates == 3  \* longest candidate list given to a merge routine

ConfidenceLevels == {80, 95}

\* category names and tokens are Python strings: sequences of characters
Ssn == <<"s", "s", "n">>
Names == <<"n", "a", "m", "e", "s">>
Person == <<"P", "e", "r", "s", "o", "n">>
Passport == <<"p", "a", "s", "s", "p", "o", "r", "t">>

\* Python compares key tuples lexicographically
TupleLess(a, b) ==
    \E k \in 1..Len(a) : a[k] < b[k] /\ \A j \in 1..k - 1 : a[j] = b[j]

\* Python's sorted(s, key=..., reverse=...): keys[k] is the key of s[k];
\* the sort is stable, also with reverse=True
Sorted(s, keys, reverse) ==
    LET n == Len(s)
        before(j, k) == IF reverse THEN TupleLess(keys[k], keys[j])
                                   ELSE TupleLess(keys[j], keys[k])
        rank(k) == Cardinality({j \in 1..n :
                       before(j, k) \/ (~before(k, j) /\ j < k)}) + 1
    IN  [r \in 1..n |-> s[CHOOSE k \in 1..n : rank(k) = r]]

\* list.remove(x): the first element equal to x is removed
RemoveFirst(list, x) ==
    LET k == CHOOSE k \in 1..Len(list) :
                 list[k] = x /\ \A j \in 1..k - 1 : list[j] # x
    IN  SubSeq(list, 1, k - 1) \o SubSeq(list, k + 1, Len(list))

\* sorted(entities, key=lambda x: x.start_pos)
SortedByStartPos(entities) ==
    Sorted(entities, [k \in 1..Len(entities) |-> <<entities[k].start_pos>>], FALSE)

\* the overlap test with its second comparison against the wrong end
LLMOverlapOneSided(entity, existing) ==
    entity.start_pos < existing.end_pos /\ entity.end_pos > existing.end_pos

\* the test of lines 307-308
LLMOverlap(entity, existing) ==
    entity.start_pos < existing.end_pos /\ entity.end_pos > existing.start_pos

\* the body of the for loop of _deduplicate_entities (lines 303-317):
\* the first overlapping entry of unique_entities decides
DedupStep(unique, entity) ==
    LET hits == {k \in 1..Len(unique) : LLMOverlap(entity, unique[k])}
    IN  IF hits = {}
        THEN Append(unique, entity)
        ELSE LET existing == unique[CHOOSE k \in hits : \A j \in hits : k <= j]
             IN  IF entity.confidence > existing.confidence
                 THEN Append(RemoveFirst(unique, existing), entity)
                 ELSE unique

RECURSIVE DedupLoop(_, _)
DedupLoop(sorted_entities, unique) ==
    IF sorted_entities = <<>> THEN unique
    ELSE DedupLoop(Tail(sorted_entities), DedupStep(unique, Head(sorted_entities)))

DeduplicateEntities(entities) ==
    IF entities = <<>> THEN entities
    ELSE SortedByStartPos(DedupLoop(SortedByStartPos(entities), <<>>))

\* range(offset, offset + length) as a set
OffsetRange(entity) == entity.offset..(entity.offset + entity.length - 1)

\* sorted(combined_entities, key=lambda x: -x.confidence_score)
SortedByConfidence(entities) ==
    Sorted(entities, [k \in 1..Len(entities) |-> <<-entities[k].confidence_score>>],
           FALSE)

\* lines 152-163 of AzureAIRedactor.detect_pii_entities; processed_ranges
\* holds one range per accepted entity, so the accepted list stands for it
RECURSIVE AzureMergeLoop(_, _)
AzureMergeLoop(sorted_entities, unique) ==
    IF sorted_entities = <<>> THEN unique
    ELSE LET entity == Head(sorted_entities)
             overlap == \E k \in 1..Len(unique) :
                            OffsetRange(entity) \cap OffsetRange(unique[k]) # {}
         IN  AzureMergeLoop(Tail(sorted_entities),
                            IF overlap THEN unique ELSE Append(unique, entity))

AzureMerge(combined_entities) ==
    AzureMergeLoop(SortedByConfidence(combined_entities), <<>>)

\* sorted(entities, key=lambda x: (x.offset, -x.confidence_score))
SortedByOffsetThenConfidence(entities) ==
    Sorted(entities,
           [k \in 1..Len(entities) |->
               <<entities[k].offset, -entities[k].confidence_score>>],
           FALSE)

\* lines 114-132 of DemoAzureAIRedactor.detect_pii_entities and lines 223-243
\* of AzureAIRedactor._fallback_detection (the same loop)
RECURSIVE PatternDedupLoop(_, _)
PatternDedupLoop(sorted_entities, unique) ==
    IF sorted_entities = <<>> THEN unique
    ELSE LET entity == Head(sorted_entities)
             overlap == \E k \in 1..Len(unique) :
                            \E pos \in OffsetRange(unique[k]) : pos \in OffsetRange(entity)
         IN  PatternDedupLoop(Tail(sorted_entities),
                              IF overlap THEN unique ELSE Append(unique, entity))

PatternDedup(entities) ==
    PatternDedupLoop(SortedByOffsetThenConfidence(entities), <<>>)

\* the same candidate in the two record shapes
AsAzure(e) == [offset |-> e.start_pos, length |-> e.end_pos - e.start_pos,
               confidence_score |-> e.confidence, category |-> e.category]
AsLLM(e) == [start_pos |-> e.offset, end_pos |-> e.offset + e.length,
             confidence |-> e.confidence_score, category |-> e.category]

AzureList(list) == [k \in 1..Len(list) |-> AsAzure(list[k])]
LLMList(list) == [k \in 1..Len(list) |-> AsLLM(list[k])]

\* candidate entities with start < end
Candidates ==
    {e \in [start_pos : 0..MaxPos, end_pos : 1..MaxPos,
            confidence : ConfidenceLevels, category : {Ssn}] :
        e.start_pos < e.end_pos}

CandidateLists == UNION {[1..n -> Candidates] : n \in 0..MaxCandidates}

(***************************************************************************)
(* The three routines applied to a candidate list.  The result is kept in  *)
(* the LLM record shape whichever routine produced it.                     *)
(***************************************************************************)
Deduplicate ==
    /\ pc = "merge"
    /\ unique_entities' = DeduplicateEntities(all_entities)
    /\ pc' = "deduplicated"
    /\ UNCHANGED <<configVars, otherVars, chunkVars, all_entities, redacted_text, detectVars>>

MergeAzure ==
    /\ pc = "merge"
    /\ unique_entities' = LLMList(AzureMerge(AzureList(all_entities)))
    /\ pc' = "azure_merged"
    /\ UNCHANGED <<configVars, otherVars, chunkVars, all_entities, redacted_text, detectVars>>

DedupPattern ==
    /\ pc = "merge"
    /\ unique_entities' = LLMList(PatternDedup(AzureList(all_entities)))
    /\ pc' = "pattern_deduped"
    /\ UNCHANGED <<configVars, otherVars, chunkVars, all_entities, redacted_text, detectVars>>

ConfigIdle == text = <<>> /\ chunk_size = 1 /\ overlap_size = 0

InitMerge ==
    /\ ConfigIdle
    /\ ChunkIdle
    /\ pc = "merge"
    /\ all_entities \in CandidateLists
    /\ unique_entities = <<>>
    /\ redacted_text = <<>>
    /\ DetectIdle
    /\ OtherIdle

NextMerge == Deduplicate \/ MergeAzure \/ DedupPattern

SpecMerge == InitMerge /\ [][NextMerge]_vars

Merged == pc \in {"deduplicated", "azure_merged", "pattern_deduped"}

Intersect(a, b) == a.start_pos < b.end_pos /\ b.start_pos < a.end_pos

NoOverlap(list) ==
    \A j \in 1..Len(list), k \in 1..Len(list) :
        j # k => ~Intersect(list[j], list[k])

InList(e, list) == \E k \in 1..Len(list) : list[k] = e

\* C1: the list returned by each overlap-resolution routine holds no two
\* distinct entities whose ranges intersect.
C1_MergedEntitiesDoNotOverlap == Merged => NoOverlap(unique_entities)

C1_Witness ==
    /\ Merged
    /\ Len(unique_entities) >= 2
    /\ Len(all_entities) > Len(unique_entities)

\* C3: in _deduplicate_entities a candidate is discarded only if it
\* intersects a returned entity whose confidence is at least its own.
C3_DiscardedOnlyForAStrongerSurvivor ==
    pc = "deduplicated" =>
        \A k \in 1..Len(all_entities) :
            \/ InList(all_entities[k], unique_entities)
            \/ \E j \in 1..Len(unique_entities) :
                   /\ Intersect(all_entities[k], unique_entities[j])
                   /\ unique_entities[j].confidence >= all_entities[k].confidence

(***************************************************************************)
(* Redaction: the token of a category and the replacement loop.            *)
(***************************************************************************)
MaxRedactLen == 3       \* longest text given to the replacement loop
MaxRedactEntities == 2  \* longest entity list given to it

\* LLMConfig.get_redaction_patterns(), style 'standard': <<category, token>>
StandardPatterns ==
    {
        <<<<"n", "a", "m", "e", "s">>,
          <<"[", "N", "A", "M", "E", "_", "R", "E", "D", "A", "C", "T", "E", "D", "]">>>>,
        <<<<"p", "h", "o", "n", "e", "_", "n", "u", "m", "b", "e", "r", "s">>,
          <<"[", "P", "H", "O", "N", "E", "_", "R", "E", "D", "A", "C", "T", "E", "D", "]">>>>,
        <<<<"e", "m", "a", "i", "l", "s">>,
          <<"[", "E", "M", "A", "I", "L", "_", "R", "E", "D", "A", "C", "T", "E", "D", "]">>>>,
        <<<<"a", "d", "d", "r", "e", "s", "s", "e", "s">>,
          <<"[", "A", "D", "D", "R", "E", "S", "S", "_", "R", "E", "D", "A", "C", "T", "E", "D", "]">>>>,
        <<<<"s", "s", "n">>,
          <<"[", "S", "S", "N", "_", "R", "E", "D", "A", "C", "T", "E", "D", "]">>>>,
        <<<<"c", "r", "e", "d", "i", "t", "_", "c", "a", "r", "d", "s">>,
          <<"[", "C", "R", "E", "D", "I", "T", "_", "C", "A", "R", "D", "_", "R", "E", "D", "A", "C", "T", "E", "D", "]">>>>,
        <<<<"d", "a", "t", "e", "s">>,
          <<"[", "D", "A", "T", "E", "_", "R", "E", "D", "A", "C", "T", "E", "D", "]">>>>,
        <<<<"i", "p", "_", "a", "d", "d", "r", "e", "s", "s", "e", "s">>,
          <<"[", "I", "P", "_", "R", "E", "D", "A", "C", "T", "E", "D", "]">>>>}

\* default_redaction_map of AzureAIRedactor.redact_text
DefaultRedactionMap ==
    {
        <<<<"P", "e", "r", "s", "o", "n">>,
          <<"[", "N", "A", "M", "E", "_", "R", "E", "D", "A", "C", "T", "E", "D", "]">>>>,
        <<<<"P", "e", "r", "s", "o", "n", "T", "y", "p", "e">>,
          <<"[", "T", "I", "T", "L", "E", "_", "R", "E", "D", "A", "C", "T", "E", "D", "]">>>>,
        <<<<"P", "h", "o", "n", "e", "N", "u", "m", "b", "e", "r">>,
          <<"[", "P", "H", "O", "N", "E", "_", "R", "E", "D", "A", "C", "T", "E", "D", "]">>>>,
        <<<<"A", "d", "d", "r", "e", "s", "s">>,
          <<"[", "A", "D", "D", "R", "E", "S", "S", "_", "R", "E", "D", "A", "C", "T", "E", "D", "]">>>>,
        <<<<"C", "r", "e", "d", "i", "t", "C", "a", "r", "d", "N", "u", "m", "b", "e", "r">>,
          <<"[", "C", "R", "E", "D", "I", "T", "_", "C", "A", "R", "D", "_", "R", "E", "D", "A", "C", "T", "E", "D", "]">>>>,
        <<<<"E", "m", "a", "i", "l">>,
          <<"[", "E", "M", "A", "I", "L", "_", "R", "E", "D", "A", "C", "T", "E", "D", "]">>>>,
        <<<<"U", "R", "L">>,
          <<"[", "U", "R", "L", "_", "R", "E", "D", "A", "C", "T", "E", "D", "]">>>>,
        <<<<"I", "P", "A", "d", "d", "r", "e", "s", "s">>,
          <<"[", "I", "P", "_", "A", "D", "D", "R", "E", "S", "S", "_", "R", "E", "D", "A", "C", "T", "E", "D", "]">>>>,
        <<<<"D", "a", "t", "e", "T", "i", "m", "e">>,
          <<"[", "D", "A", "T", "E", "_", "R", "E", "D", "A", "C", "T", "E", "D", "]">>>>,
        <<<<"c", "r", "e", "d", "i", "t", "_", "c", "a", "r", "d">>,
          <<"[", "C", "R", "E", "D", "I", "T", "_", "C", "A", "R", "D", "_", "R", "E", "D", "A", "C", "T", "E", "D", "]">>>>,
        <<<<"p", "h", "o", "n", "e">>,
          <<"[", "P", "H", "O", "N", "E", "_", "R", "E", "D", "A", "C", "T", "E", "D", "]">>>>,
        <<<<"s", "s", "n">>,
          <<"[", "S", "S", "N", "_", "R", "E", "D", "A", "C", "T", "E", "D", "]">>>>,
        <<<<"e", "m", "a", "i", "l">>,
          <<"[", "E", "M", "A", "I", "L", "_", "R", "E", "D", "A", "C", "T", "E", "D", "]">>>>}

Lowercase == <<"a", "b", "c", "d", "e", "f", "g", "h", "i", "j", "k", "l", "m", "n", "o", "p", "q", "r", "s", "t", "u", "v", "w", "x", "y", "z">>
Uppercase == <<"A", "B", "C", "D", "E", "F", "G", "H", "I", "J", "K", "L", "M", "N", "O", "P", "Q", "R", "S", "T", "U", "V", "W", "X", "Y", "Z">>

\* str.upper() on one character, and on a string
UpperChar(c) ==
    IF \E k \in 1..Len(Lowercase) : Lowercase[k] = c
    THEN Uppercase[CHOOSE k \in 1..Len(Lowercase) : Lowercase[k] = c]
    ELSE c

Upper(str) == [k \in 1..Len(str) |-> UpperChar(str[k])]

\* dict.get(category, f'[{category.upper()}_REDACTED]')
TokenFrom(table, category) ==
    IF \E row \in table : row[1] = category
    THEN (CHOOSE row \in table : row[1] = category)[2]
    ELSE <<"[">> \o Upper(category) \o <<"_", "R", "E", "D", "A", "C", "T", "E", "D", "]">>

\* the replacement order without reverse=True
SortedAscending(entities) ==
    Sorted(entities, [k \in 1..Len(entities) |-> <<entities[k].start_pos>>], FALSE)

\* sorted(entities, key=lambda x: x.start_pos, reverse=True)
SortedForReplacement(entities) ==
    Sorted(entities, [k \in 1..Len(entities) |-> <<entities[k].start_pos>>], TRUE)

\* sorted(entities, key=lambda x: x.offset, reverse=True)
SortedByOffsetReversed(entities) ==
    Sorted(entities, [k \in 1..Len(entities) |-> <<entities[k].offset>>], TRUE)

\* redacted_text[:start] + token + redacted_text[end:]
Replace(str, from, to, token) ==
    PySlice(str, 0, from) \o token \o PySlice(str, to, Len(str))

\* the for loop of GPT4oMiniRedactor.redact_text (lines 344-356)
RECURSIVE RedactLoop(_, _)
RedactLoop(redacted, sorted_entities) ==
    IF sorted_entities = <<>> THEN redacted
    ELSE LET entity == Head(sorted_entities)
             redaction_token == TokenFrom(StandardPatterns, entity.category)
         IN  RedactLoop(Replace(redacted, entity.start_pos, entity.end_pos,
                                redaction_token),
                        Tail(sorted_entities))

RedactedText(original, entities) ==
    RedactLoop(original, SortedForReplacement(entities))

\* the for loop of AzureAIRedactor.redact_text (lines 287-293), without a
\* custom_redaction_map
RECURSIVE AzureRedactLoop(_, _)
AzureRedactLoop(redacted, sorted_entities) ==
    IF sorted_entities = <<>> THEN redacted
    ELSE LET entity == Head(sorted_entities)
             redaction_token == TokenFrom(DefaultRedactionMap, entity.category)
         IN  AzureRedactLoop(Replace(redacted, entity.offset,
                                     entity.offset + entity.length,
                                     redaction_token),
                             Tail(sorted_entities))

AzureRedactedText(original, entities) ==
    AzureRedactLoop(original, SortedByOffsetReversed(entities))

RedactLLM ==
    /\ pc = "redact"
    /\ redacted_text' = RedactedText(text, unique_entities)
    /\ pc' = "redacted"
    /\ UNCHANGED <<configVars, otherVars, chunkVars, all_entities, unique_entities, detectVars>>

RedactAzure ==
    /\ pc = "redact"
    /\ redacted_text' = AzureRedactedText(text, AzureList(unique_entities))
    /\ pc' = "azure_redacted"
    /\ UNCHANGED <<configVars, otherVars, chunkVars, all_entities, unique_entities, detectVars>>

\* entity lists whose ranges are non-empty, inside the text and pairwise
\* non-overlapping, in any order
RedactCategories == {Ssn, Person, Passport}

EntitiesIn(n) ==
    {e \in [start_pos : 0..n, end_pos : 0..n, confidence : {95},
            category : RedactCategories] : e.start_pos < e.end_pos}

EntityListsIn(n) ==
    {list \in UNION {[1..m -> EntitiesIn(n)] : m \in 0..MaxRedactEntities} :
        \A j \in 1..Len(list), k \in 1..Len(list) :
            j # k => ~(list[j].start_pos < list[k].end_pos
                       /\ list[k].start_pos < list[j].end_pos)}

InitRedact ==
    /\ text \in Texts(MaxRedactLen)
    /\ chunk_size = 1
    /\ overlap_size = 0
    /\ ChunkIdle
    /\ pc = "redact"
    /\ all_entities = <<>>
    /\ unique_entities \in EntityListsIn(Len(text))
    /\ redacted_text = <<>>
    /\ DetectIdle
    /\ OtherIdle

NextRedact == RedactLLM \/ RedactAzure

SpecRedact == InitRedact /\ [][NextRedact]_vars

\* The text with every entity span replaced by its token, built left to
\* right from character index k on: at the start of a span the token is
\* written and the span skipped, any other character is copied.
RECURSIVE Rebuilt(_, _, _, _)
Rebuilt(original, entities, table, k) ==
    IF k >= Len(original) THEN <<>>
    ELSE IF \E j \in 1..Len(entities) : entities[j].start_pos = k
         THEN LET entity == entities[CHOOSE j \in 1..Len(entities) :
                                         entities[j].start_pos = k]
              IN  TokenFrom(table, entity.category)
                      \o Rebuilt(original, entities, table, entity.end_pos)
         ELSE <<original[k + 1]>> \o Rebuilt(original, entities, table, k + 1)

\* C2: for non-empty, in-range, pairwise non-overlapping entities the
\* replacement loop returns the text with each span replaced by its category
\* token and every other character kept, in order; with no entity it returns
\* the text itself.
C2_RedactedTextIsSpansReplaced ==
    /\ pc = "redacted" =>
         /\ redacted_text = Rebuilt(text, unique_entities, StandardPatterns, 0)
         /\ unique_entities = <<>> => redacted_text = text
    /\ pc = "azure_redacted" =>
         /\ redacted_text = Rebuilt(text, unique_entities, DefaultRedactionMap, 0)
         /\ unique_entities = <<>> => redacted_text = text

C2_Witness ==
    /\ pc = "redacted"
    /\ Len(unique_entities) = 2
    /\ unique_entities[1].start_pos < unique_entities[2].start_pos
    /\ unique_entities[1].category # unique_entities[2].category
    /\ Len(redacted_text) > Len(text)

(***************************************************************************)
(* GPT4oMiniRedactor.detect_pii_entities and redact_text.                  *)
(*                                                                         *)
(* The provider is the environment.  One span of the text, pii, is PII;    *)
(* for a chunk that holds the whole span the provider may report it, at    *)
(* its chunk-relative offsets and with any confidence it likes, or report  *)
(* nothing; for any chunk the call may raise.  A response is the list of   *)
(* entity records of the decoded JSON answer.                              *)
(***************************************************************************)
LLMMaxLen == 7        \* longest text given to detect_pii_entities
LLMMaxChunkSize == 5  \* largest chunk_size configured for it

ProviderConfidences == {50, 95}
Thresholds == {0, 80, 96}

\* texts of ordinary characters with at most one sentence break ". "
OneBreakTexts(maxlen) ==
    {[k \in 1..n |-> "a"] : n \in 0..maxlen} \cup
    {[k \in 1..n |-> IF k = p THEN "." ELSE IF k = p + 1 THEN " " ELSE "a"] :
        n \in 2..maxlen, p \in 1..maxlen - 1}

Spans(n) == {sp \in (0..n) \X (0..n) : sp[1] < sp[2]}

\* an entry of provider_log: what one provider call did
Returned(response) == [raised |-> FALSE, response |-> response]
Raised == [raised |-> TRUE, response |-> <<>>]

\* what the provider can answer for chunk k (1-based) of the chunk list
Responses(k) ==
    LET r == ChunkRange(k)
    IN  {<<>>} \cup
        IF pii[1] < pii[2] /\ r.lo <= pii[1] /\ pii[2] <= r.hi
        THEN {<<[start_pos |-> pii[1] - r.lo, end_pos |-> pii[2] - r.lo,
                 confidence |-> c, category |-> Ssn]>> :
                c \in ProviderConfidences}
        ELSE {}

\* the same without the test of line 166
ParseLLMResponseUnfiltered(entities) == entities

\* _parse_llm_response on a well-formed answer (lines 154-167): the
\* entities at or above the threshold, in the order given
ParseLLMResponse(entities) ==
    LET AtOrAbove(e) == e.confidence >= confidence_threshold
    IN  SelectSeq(entities, AtOrAbove)

\* lines 268-271: every entity of the chunk is moved by chunk_start
Shifted(entities, chunk_start) ==
    [k \in 1..Len(entities) |->
        [entities[k] EXCEPT !.start_pos = @ + chunk_start,
                            !.end_pos = @ + chunk_start]]

\* one pass of the for loop whose provider call returns (lines 234-278)
ProviderReturns ==
    /\ pc = "chunked"
    /\ chunk_i < Len(chunks)
    /\ \E response \in Responses(chunk_i + 1) :
          LET chunk_entities == ParseLLMResponse(response)
              chunk_start == ChunkStart(chunks, chunk_i + 1)
          IN  /\ all_entities' = all_entities \o Shifted(chunk_entities, chunk_start)
              /\ provider_log' = Append(provider_log, Returned(response))
    /\ chunk_i' = chunk_i + 1
    /\ UNCHANGED <<configVars, otherVars, chunkVars, pc, unique_entities, redacted_text,
                   confidence_threshold, pii, offset_adjustment, matches>>

\* one pass whose provider call raises (lines 280-282)
ProviderRaises ==
    /\ pc = "chunked"
    /\ chunk_i < Len(chunks)
    /\ provider_log' = Append(provider_log, Raised)
    /\ chunk_i' = chunk_i + 1
    /\ UNCHANGED <<configVars, otherVars, chunkVars, pc, mergeVars, confidence_threshold, pii,
                   offset_adjustment, matches>>

\* the loop is over: lines 284-292
DetectReturn ==
    /\ pc = "chunked"
    /\ chunk_i = Len(chunks)
    /\ unique_entities' = DeduplicateEntities(all_entities)
    /\ pc' = "redact"
    /\ UNCHANGED <<configVars, otherVars, chunkVars, all_entities, redacted_text, detectVars>>

InitLLM ==
    /\ text \in OneBreakTexts(LLMMaxLen)
    /\ chunk_size \in 1..LLMMaxChunkSize
    /\ overlap_size \in 0..chunk_size - 1
    /\ confidence_threshold \in Thresholds
    /\ pii \in Spans(Len(text)) \cup {<<0, 0>>}
    /\ pc = "chunk_text"
    /\ ChunkIdle
    /\ MergeIdle
    /\ chunk_i = 0
    /\ provider_log = <<>>
    /\ offset_adjustment = 0
    /\ matches = <<>>
    /\ OtherIdle

NextLLM ==
    \/ ChunkWhole \/ ChunkCut \/ ChunkAppend \/ ChunkReturn
    \/ ProviderReturns \/ ProviderRaises \/ DetectReturn
    \/ RedactLLM

SpecLLM == InitLLM /\ [][NextLLM]_vars

Detected == pc \in {"redact", "redacted", "azure_redacted"}

\* chunk k was answered with the span, at or above the threshold
Reported(k) ==
    /\ ~provider_log[k].raised
    /\ ParseLLMResponse(provider_log[k].response) # <<>>

\* the span lies in the overlap of chunks k and k + 1
InOverlap(k) ==
    /\ pii[1] < pii[2]
    /\ ChunkRange(k).lo <= pii[1] /\ pii[2] <= ChunkRange(k).hi
    /\ ChunkRange(k + 1).lo <= pii[1] /\ pii[2] <= ChunkRange(k + 1).hi

\* C8: when the span lies in the overlap of two consecutive chunks and the
\* provider reports it in both, detect_pii_entities returns exactly one
\* entity, and that entity is at the span's offsets in the original text.
C8_OverlapSpanReturnedOnceInPlace ==
    Detected =>
        \A k \in 1..Len(chunks) - 1 :
            (InOverlap(k) /\ Reported(k) /\ Reported(k + 1)) =>
                /\ Len(unique_entities) = 1
                /\ unique_entities[1].start_pos = pii[1]
                /\ unique_entities[1].end_pos = pii[2]

\* the entities the answered chunks of 1..n contribute, a raising chunk
\* contributing none; chunk k's offsets are moved by the value the code
\* adds (byCode) or by the index at which chunk k begins in the text
RECURSIVE Contributed(_, _)
Contributed(n, byCode) ==
    IF n = 0 THEN <<>>
    ELSE Contributed(n - 1, byCode) \o
         IF provider_log[n].raised THEN <<>>
         ELSE Shifted(ParseLLMResponse(provider_log[n].response),
                      IF byCode THEN ChunkStart(chunks, n) ELSE ChunkRange(n).lo)

SomeChunkRaised == \E k \in 1..Len(provider_log) : provider_log[k].raised

\* C10: when the provider call raises for some chunks, every chunk has still
\* been sent, the raising chunks contribute nothing, the entities of every
\* other chunk reach the merge at their offsets in the original text, and
\* redact_text returns the text redacted with the merged entities.
C10_RaisingChunkCostsOnlyItsOwnEntities ==
    (Detected /\ SomeChunkRaised) =>
        /\ Len(provider_log) = Len(chunks)
        /\ all_entities = Contributed(Len(chunks), FALSE)
        /\ unique_entities = DeduplicateEntities(all_entities)
        /\ pc = "redacted" => redacted_text = RedactedText(text, unique_entities)

\* What the loop does keep when chunks raise: the same statement with the
\* offsets the code computes in place of the true ones.
RaisingChunkIsIsolated ==
    (Detected /\ SomeChunkRaised) =>
        /\ Len(provider_log) = Len(chunks)
        /\ all_entities = Contributed(Len(chunks), TRUE)
        /\ unique_entities = DeduplicateEntities(all_entities)
        /\ pc = "redacted" => redacted_text = RedactedText(text, unique_entities)

\* The overlap statement where every chunk's added offset is the index at
\* which the chunk begins.
OffsetsRight ==
    \A i \in 1..Len(chunks) : ChunkStart(chunks, i) = ChunkRange(i).lo

OverlapSpanOnceWhereOffsetsRight ==
    (Detected /\ OffsetsRight) =>
        \A k \in 1..Len(chunks) - 1 :
            (InOverlap(k) /\ Reported(k) /\ Reported(k + 1)) =>
                /\ Len(unique_entities) = 1
                /\ unique_entities[1].start_pos = pii[1]
                /\ unique_entities[1].end_pos = pii[2]

(***************************************************************************)
(* AzureAIRedactor.detect_pii_entities: the provider pass over chunks of   *)
(* 5000 characters, the pattern rules, and the merge.                      *)
(*                                                                         *)
(* The regular-expression engine is the environment: matches is the list   *)
(* of matches the patterns of custom_patterns find in the text, in the     *)
(* order the loops meet them.  A match is [start, end, category, group],   *)
(* group being <<>> for a pattern without groups and <<gs, ge>>, the span  *)
(* of group 1, otherwise.  all_entities and unique_entities hold records   *)
(* in the start_pos / end_pos shape in every specification.                *)
(***************************************************************************)
AzureMaxLen == 3   \* longest text given to AzureAIRedactor.detect_pii_entities
MaxMatches == 2    \* most regex matches in a text

\* max_chars
MaxChars == 5000

\* confidence_score of every entity of _fallback_detection, in percent
FallbackConfidence == 95

\* [text[i:i+max_chars] for i in range(0, len(text), max_chars)]
AzureChunks(t) ==
    [k \in 1..((Len(t) + MaxChars - 1) \div MaxChars) |->
        PySlice(t, (k - 1) * MaxChars, k * MaxChars)]

\* str.find(sub): the lowest index where sub occurs, -1 if nowhere
Find(str, sub) ==
    LET at == {k \in 0..Len(str) - Len(sub) :
                  SubSeq(str, k + 1, k + Len(sub)) = sub}
    IN  IF at = {} THEN -1 ELSE CHOOSE k \in at : \A j \in at : k <= j

\* the map of _fallback_detection from internal to Azure categories
AzureCategories ==
    {
        <<<<"c", "r", "e", "d", "i", "t", "_", "c", "a", "r", "d">>,
          <<"C", "r", "e", "d", "i", "t", "C", "a", "r", "d", "N", "u", "m", "b", "e", "r">>>>,
        <<<<"p", "h", "o", "n", "e">>,
          <<"P", "h", "o", "n", "e", "N", "u", "m", "b", "e", "r">>>>,
        <<<<"s", "s", "n">>,
          <<"U", "S", "P", "e", "r", "s", "o", "n", "a", "l", "I", "d", "e", "n", "t", "i", "f", "i", "c", "a", "t", "i", "o", "n", "N", "u", "m", "b", "e", "r">>>>,
        <<<<"e", "m", "a", "i", "l">>,
          <<"E", "m", "a", "i", "l">>>>,
        <<<<"a", "d", "d", "r", "e", "s", "s">>,
          <<"A", "d", "d", "r", "e", "s", "s">>>>,
        <<<<"n", "a", "m", "e", "_", "c", "o", "n", "t", "e", "x", "t">>,
          <<"P", "e", "r", "s", "o", "n">>>>}

AzureCategory(category) ==
    IF \E row \in AzureCategories : row[1] = category
    THEN (CHOOSE row \in AzureCategories : row[1] = category)[2]
    ELSE category

\* lines 187-221: the entity made from one match
FallbackEntity(t, match) ==
    LET full_match == PySlice(t, match.start, match.end)
        pii_text == IF match.group # <<>>
                    THEN PySlice(t, match.group[1], match.group[2])
                    ELSE full_match
        offset == IF match.group # <<>>
                  THEN match.start + Find(full_match, pii_text)
                  ELSE match.start
    IN  [offset |-> offset, length |-> Len(pii_text),
         confidence_score |-> FallbackConfidence,
         category |-> AzureCategory(match.category)]

\* _fallback_detection
FallbackDetection(t, ms) ==
    PatternDedup([k \in 1..Len(ms) |-> FallbackEntity(t, ms[k])])

\* what the provider can answer for the chunk beginning at index lo
AzureResponses(lo, chunk) ==
    {<<>>} \cup
    IF pii[1] < pii[2] /\ lo <= pii[1] /\ pii[2] <= lo + Len(chunk)
    THEN {<<[offset |-> pii[1] - lo, length |-> pii[2] - pii[1],
             confidence_score |-> c, category |-> Person]>> :
            c \in ProviderConfidences}
    ELSE {}

\* lines 116-129: the entities of one response, moved by offset_adjustment,
\* those at or above the threshold
AzureChunkEntities(response, adjustment) ==
    LET AtOrAbove(e) == e.confidence_score >= confidence_threshold
    IN  SelectSeq([k \in 1..Len(response) |->
                      [response[k] EXCEPT !.offset = @ + adjustment]],
                  AtOrAbove)

\* one pass of the for loop of lines 109-131
AzureProviderReturns ==
    /\ pc = "azure_detect"
    /\ chunk_i < Len(AzureChunks(text))
    /\ LET chunk == AzureChunks(text)[chunk_i + 1]
       IN  /\ \E response \in AzureResponses(chunk_i * MaxChars, chunk) :
                 /\ all_entities' = all_entities \o
                        LLMList(AzureChunkEntities(response, offset_adjustment))
                 /\ provider_log' = Append(provider_log, Returned(response))
           /\ offset_adjustment' = offset_adjustment + Len(chunk)
    /\ chunk_i' = chunk_i + 1
    /\ UNCHANGED <<configVars, otherVars, chunkVars, pc, unique_entities, redacted_text,
                   confidence_threshold, pii, matches>>

\* the provider call raises: the except clause of line 136 ends the loop
AzureProviderRaises ==
    /\ pc = "azure_detect"
    /\ chunk_i < Len(AzureChunks(text))
    /\ provider_log' = Append(provider_log, Raised)
    /\ pc' = "azure_regex"
    /\ UNCHANGED <<configVars, otherVars, chunkVars, mergeVars, confidence_threshold, chunk_i,
                   pii, offset_adjustment, matches>>

\* the loop is over (line 133)
AzureProviderDone ==
    /\ pc = "azure_detect"
    /\ chunk_i = Len(AzureChunks(text))
    /\ pc' = "azure_regex"
    /\ UNCHANGED <<configVars, otherVars, chunkVars, mergeVars, detectVars>>

\* lines 139-170: the pattern rules, then the merge of both lists
AzureDetectReturn ==
    /\ pc = "azure_regex"
    /\ LET regex_entities == FallbackDetection(text, matches)
           combined_entities == AzureList(all_entities) \o regex_entities
       IN  unique_entities' = LLMList(AzureMerge(combined_entities))
    /\ pc' = "redact"
    /\ UNCHANGED <<configVars, otherVars, chunkVars, all_entities, redacted_text, detectVars>>

\* the matches a text can hold: non-empty, inside the text, the group
\* inside the match
MatchesIn(n) ==
    {m \in [start : 0..n, end : 0..n, category : {Ssn},
            group : {<<>>} \cup Spans(n)] :
        /\ m.start < m.end
        /\ m.group # <<>> => m.start <= m.group[1] /\ m.group[2] <= m.end}

InitAzure ==
    /\ text \in PlainTexts(AzureMaxLen)
    /\ chunk_size = 1
    /\ overlap_size = 0
    /\ confidence_threshold \in Thresholds
    /\ pii \in Spans(Len(text)) \cup {<<0, 0>>}
    /\ matches \in UNION {[1..n -> MatchesIn(Len(text))] : n \in 0..MaxMatches}
    /\ pc = "azure_detect"
    /\ ChunkIdle
    /\ MergeIdle
    /\ chunk_i = 0
    /\ provider_log = <<>>
    /\ offset_adjustment = 0
    /\ OtherIdle

NextAzure ==
    \/ AzureProviderReturns \/ AzureProviderRaises \/ AzureProviderDone
    \/ AzureDetectReturn
    \/ RedactAzure

SpecAzure == InitAzure /\ [][NextAzure]_vars

\* C4: every entity of the list detect_pii_entities returns has a confidence
\* at or above the configured threshold, whether the provider or the pattern
\* rules found it.
C4_ReturnedEntitiesMeetThreshold ==
    Detected =>
        \A k \in 1..Len(unique_entities) :
            unique_entities[k].confidence >= confidence_threshold

(***************************************************************************)
(* AzureAIRedactor.detect_pii_entities on texts of more than one chunk of  *)
(* max_chars characters.                                                   *)
(***************************************************************************)
LongChunks == 3   \* most chunks of max_chars characters in a long text

\* texts of 2..LongChunks chunks, the last chunk one character or full
LongTexts ==
    {[k \in 1..n |-> "a"] :
        n \in UNION {{(c - 1) * MaxChars + 1, c * MaxChars} : c \in 2..LongChunks}}

\* the first character of some chunk is PII, or nothing is
LongSpans(n) ==
    {<<0, 0>>} \cup
    {sp \in {<<k * MaxChars, k * MaxChars + 1>> : k \in 0..LongChunks - 1} :
        sp[2] <= n}

InitAzureLong ==
    /\ text \in LongTexts
    /\ chunk_size = 1
    /\ overlap_size = 0
    /\ confidence_threshold \in Thresholds
    /\ pii \in LongSpans(Len(text))
    /\ matches \in {<<>>} \cup {<<m>> : m \in MatchesIn(1)}
    /\ pc = "azure_detect"
    /\ ChunkIdle
    /\ MergeIdle
    /\ chunk_i = 0
    /\ provider_log = <<>>
    /\ offset_adjustment = 0
    /\ OtherIdle

SpecAzureLong == InitAzureLong /\ [][NextAzure]_vars

\* the provider entities the answered chunks of 1..n contribute, each at
\* its offset in the whole text
RECURSIVE AzureContributed(_)
AzureContributed(n) ==
    IF n = 0 THEN <<>>
    ELSE AzureContributed(n - 1) \o
         IF provider_log[n].raised THEN <<>>
         ELSE LLMList(AzureChunkEntities(provider_log[n].response,
                                         (n - 1) * MaxChars))

\* C11: when the provider call raises for one chunk, only that chunk is
\* lost: every chunk of the text has been submitted by the time
\* detect_pii_entities returns, and the provider entities of every chunk
\* that was answered are in the list given to the merge.
C11_AzureRaisingChunkCostsOnlyItself ==
    Detected =>
        /\ Len(provider_log) = Len(AzureChunks(text))
        /\ all_entities = AzureContributed(Len(provider_log))

(***************************************************************************)
(* GPT4oMiniRedactor on short texts under the default configuration, the   *)
(* provider answering with any text at all.  A raw response is what         *)
(* _parse_llm_response meets in response_text:                             *)
(*   json      "none"     no '{' ... '}' in the text                        *)
(*             "invalid"  json.loads raises                                 *)
(*             "no_key"   an object without the key 'entities'              *)
(*             "ok"       an object with a list under 'entities'            *)
(*   entities  the records of that list; a field of a record is             *)
(*             [kind, value]: kind "value" (convertible, to value),         *)
(*             "missing" (the key is absent) or "malformed" (float() or     *)
(*             int() raises on it).                                         *)
(***************************************************************************)
RawMaxLen == 1        \* longest text of a run with raw responses
RawMaxPos == 2        \* largest position a raw response names
RawMaxEntities == 2   \* most records in one raw response

\* CHUNK_SIZE and OVERLAP_SIZE default to 3000 and 200
DefaultChunkSize == 3000
DefaultOverlapSize == 200

Value(v) == [kind |-> "value", value |-> v]
Missing == [kind |-> "missing", value |-> 0]
Malformed == [kind |-> "malformed", value |-> 0]

RawConfidences == {Value(c) : c \in ProviderConfidences} \cup {Missing, Malformed}
RawPositions == {Value(p) : p \in 0..RawMaxPos} \cup {Missing}

RawEntities ==
    [category : {Ssn, Names}, confidence : RawConfidences,
     start_pos : RawPositions, end_pos : RawPositions]

RawResponses ==
    {[json |-> j, entities |-> <<>>] : j \in {"none", "invalid", "no_key"}} \cup
    {[json |-> "ok", entities |-> es] :
        es \in UNION {[1..n -> RawEntities] : n \in 0..RawMaxEntities}}

\* entity_data.get(key, 0) converted by float() / int(): lines 157-159
Get(field) == IF field.kind = "missing" THEN 0 ELSE field.value

Raises(e) ==
    \/ e.confidence.kind = "malformed"
    \/ e.start_pos.kind = "malformed"
    \/ e.end_pos.kind = "malformed"

\* the PIIEntity built at lines 155-163
Built(e) ==
    [start_pos |-> Get(e.start_pos), end_pos |-> Get(e.end_pos),
     confidence |-> Get(e.confidence), category |-> e.category]

\* the records the for loop of line 154 gets through before one raises
RECURSIVE BeforeRaise(_)
BeforeRaise(es) ==
    IF es = <<>> \/ Raises(Head(es)) THEN <<>>
    ELSE <<Head(es)>> \o BeforeRaise(Tail(es))

\* _parse_llm_response: entities is returned from every path, the except
\* clauses of lines 171-174 included
ParseRawResponse(r) ==
    IF r.json # "ok" THEN <<>>
    ELSE LET done == BeforeRaise(r.entities)
         IN  ParseLLMResponse([k \in 1..Len(done) |-> Built(done[k])])

\* one pass of the for loop of detect_pii_entities, the provider call
\* returning some text (lines 234-278)
ProviderReturnsRaw ==
    /\ pc = "chunked"
    /\ chunk_i < Len(chunks)
    /\ \E response \in RawResponses :
          LET chunk_entities == ParseRawResponse(response)
              chunk_start == ChunkStart(chunks, chunk_i + 1)
          IN  /\ all_entities' = all_entities \o Shifted(chunk_entities, chunk_start)
              /\ provider_log' = Append(provider_log, Returned(response))
    /\ chunk_i' = chunk_i + 1
    /\ UNCHANGED <<configVars, otherVars, chunkVars, pc, unique_entities,
                   redacted_text, confidence_threshold, pii, offset_adjustment,
                   matches>>

InitRaw ==
    /\ text \in PlainTexts(RawMaxLen)
    /\ chunk_size = DefaultChunkSize
    /\ overlap_size = DefaultOverlapSize
    /\ confidence_threshold \in {0, DefaultThreshold}
    /\ pii = <<0, 0>>
    /\ pc = "chunk_text"
    /\ ChunkIdle
    /\ MergeIdle
    /\ chunk_i = 0
    /\ provider_log = <<>>
    /\ offset_adjustment = 0
    /\ matches = <<>>
    /\ OtherIdle

NextRaw ==
    \/ ChunkWhole
    \/ ProviderReturnsRaw \/ ProviderRaises \/ DetectReturn
    \/ RedactLLM

SpecRaw == InitRaw /\ [][NextRaw]_vars

\* parsing the response fails at some point
ParseFails(r) ==
    \/ r.json # "ok"
    \/ \E k \in 1..Len(r.entities) : Raises(r.entities[k])

\* C12: when parsing fails for the response of every chunk that was
\* answered, detect_pii_entities has no candidate entity at all: a failing
\* parse gives none of the chunk's detections, never a prefix of them.
C12_FailedParseGivesNoEntity ==
    (Detected /\ \A k \in 1..Len(provider_log) :
                    provider_log[k].raised \/ ParseFails(provider_log[k].response))
        => all_entities = <<>>

\* C15: every entity of entities_found satisfies
\* 0 <= start < end <= len(original_text).
C15_EntitiesFoundLieInTheText ==
    pc = "redacted" =>
        \A k \in 1..Len(unique_entities) :
            /\ 0 <= unique_entities[k].start_pos
            /\ unique_entities[k].start_pos < unique_entities[k].end_pos
            /\ unique_entities[k].end_pos <= Len(text)

\* the lists that hold the same entities as list, in any order
Orderings(list) ==
    {[k \in 1..Len(list) |-> list[p[k]]] :
        p \in {q \in [1..Len(list) -> 1..Len(list)] :
                  \A a, b \in 1..Len(list) : a # b => q[a] # q[b]}}

\* C20: the redacted text is a function of the text and of the set of
\* merged entities: listing the same entities in any other order gives the
\* same redacted text.
C20_RedactionIgnoresListOrder ==
    pc = "redacted" =>
        \A other \in Orderings(unique_entities) :
            RedactedText(text, other) = redacted_text

(***************************************************************************)
(* Pattern-rule detection: which of two overlapping matches is returned.   *)
(***************************************************************************)
\* candidate j has no rival: no other candidate that intersects it has a
\* confidence as high as its own
Unrivalled(j) ==
    \A m \in 1..Len(all_entities) :
        (m # j /\ Intersect(all_entities[m], all_entities[j]))
            => all_entities[m].confidence < all_entities[j].confidence

\* C13: when two pattern matches overlap and have different confidences,
\* the list the pattern-rule detection returns holds the one of higher
\* confidence and not the other, wherever the two start (stated for a
\* higher match that no third match of equal or higher confidence touches).
C13_HigherConfidenceMatchIsKept ==
    pc = "pattern_deduped" =>
        \A j \in 1..Len(all_entities), k \in 1..Len(all_entities) :
            (/\ Intersect(all_entities[j], all_entities[k])
             /\ all_entities[j].confidence > all_entities[k].confidence
             /\ Unrivalled(j))
                => /\ InList(all_entities[j], unique_entities)
                   /\ ~InList(all_entities[k], unique_entities)

(***************************************************************************)
(* Both detect_pii_entities side by side, up to their return: what the     *)
(* candidate list of the overlap resolution can hold.                      *)
(***************************************************************************)
FilterMaxLen == 4        \* longest text given to the LLM redactor here
FilterMaxChunkSize == 3  \* largest chunk_size here
FilterAzureLen == 2      \* longest text given to the Azure redactor here
FilterMaxMatches == 1    \* most regex matches in a text here

InitFilterLLM ==
    /\ text \in OneBreakTexts(FilterMaxLen)
    /\ chunk_size \in 1..FilterMaxChunkSize
    /\ overlap_size \in 0..chunk_size - 1
    /\ matches = <<>>
    /\ pc = "chunk_text"

InitFilterAzure ==
    /\ text \in PlainTexts(FilterAzureLen)
    /\ chunk_size = 1
    /\ overlap_size = 0
    /\ matches \in UNION {[1..n -> MatchesIn(Len(text))] : n \in 0..FilterMaxMatches}
    /\ pc = "azure_detect"

InitFilter ==
    /\ InitFilterLLM \/ InitFilterAzure
    /\ confidence_threshold \in Thresholds
    /\ pii \in Spans(Len(text)) \cup {<<0, 0>>}
    /\ ChunkIdle
    /\ MergeIdle
    /\ chunk_i = 0
    /\ provider_log = <<>>
    /\ offset_adjustment = 0
    /\ OtherIdle

NextFilter ==
    \/ ChunkWhole \/ ChunkCut \/ ChunkAppend \/ ChunkReturn
    \/ ProviderReturns \/ ProviderRaises \/ DetectReturn
    \/ AzureProviderReturns \/ AzureProviderRaises \/ AzureProviderDone
    \/ AzureDetectReturn

SpecFilter == InitFilter /\ [][NextFilter]_vars

\* C14: the confidence filter comes before the merge: at no moment does
\* the candidate list of provider detections that the overlap resolution
\* is given hold an entity below the threshold, in either redactor.
C14_NoCandidateBelowThreshold ==
    \A k \in 1..Len(all_entities) :
        all_entities[k].confidence >= confidence_threshold

\* the LLM provider reported the span below the threshold for one chunk and
\* at or above it for another, and detect_pii_entities has returned
C14_Witness ==
    /\ pc = "redact"
    /\ chunks # <<>>
    /\ all_entities # <<>>
    /\ \E k \in 1..Len(provider_log) :
          /\ provider_log[k].response # <<>>
          /\ provider_log[k].response[1].confidence < confidence_threshold

(***************************************************************************)
(* The cost counters of a GPT4oMiniRedactor instance over several          *)
(* redact_text calls.  cost_tracker is the instance's one CostTracker;     *)
(* calls[c] is the redact_text call of caller c:                           *)
(*   pc               "idle", "detect" (inside detect_pii_entities) or     *)
(*                    "returned"                                            *)
(*   n, i             the number of chunks of its text and the index of    *)
(*                    the chunk in hand                                     *)
(*   tokens_used, processing_cost    the fields of the result returned     *)
(*   own_tokens, own_cost, failed    history: the tokens and the cost of   *)
(*                    this call's provider calls that returned, and the     *)
(*                    number of those that raised                           *)
(*   made             history: the calls this caller has completed         *)
(* Costs are in units of 10^-9 dollar, so that the cost of a chunk is an   *)
(* integer.  The statements of one loop pass are taken as one step.        *)
(***************************************************************************)
MaxCalls == 2        \* most redact_text calls one caller makes
MaxCostChunks == 2   \* most chunks in the text of one call
MaxTokens == 2       \* most input tokens, and output tokens, of one chunk

\* input_cost_per_1k and output_cost_per_1k, per token, in 10^-9 dollar
InputCost == 150
OutputCost == 600

\* _calculate_cost
CalculateCost(input_tokens, output_tokens) ==
    input_tokens * InputCost + output_tokens * OutputCost

IdleCall ==
    [pc |-> "idle", n |-> 0, i |-> 0, tokens_used |-> 0, processing_cost |-> 0,
     own_tokens |-> 0, own_cost |-> 0, failed |-> 0, made |-> 0]

\* the tracker a call goes on with if line 332 were not there
TrackerCarriedOver(tracker) == tracker

\* line 332: self.cost_tracker = CostTracker()
TrackerAtStart(tracker) == CostTracker

\* the cost steps leave everything else alone
CostStill ==
    UNCHANGED <<configVars, pc, chunkVars, mergeVars, detectVars, riskVars,
                constructVars, documentVars>>

\* redact_text is entered: lines 331-335, up to the loop of
\* detect_pii_entities
RedactBegin ==
    /\ \E c \in DOMAIN calls :
          /\ calls[c].pc \in {"idle", "returned"}
          /\ calls[c].made < MaxCalls
          /\ cost_tracker' = TrackerAtStart(cost_tracker)
          /\ \E n \in 1..MaxCostChunks :
                calls' = [calls EXCEPT ![c] =
                             [@ EXCEPT !.pc = "detect", !.n = n, !.i = 0,
                                       !.own_tokens = 0, !.own_cost = 0,
                                       !.failed = 0]]
    /\ CostStill

\* one loop pass whose provider call returns: lines 243-262
ChunkSucceeds ==
    /\ \E c \in DOMAIN calls :
          /\ calls[c].pc = "detect"
          /\ calls[c].i < calls[c].n
          /\ \E input_tokens \in 1..MaxTokens, output_tokens \in 1..MaxTokens :
                LET chunk_cost == CalculateCost(input_tokens, output_tokens)
                IN  /\ cost_tracker' =
                           [input_tokens |-> cost_tracker.input_tokens + input_tokens,
                            output_tokens |-> cost_tracker.output_tokens + output_tokens,
                            total_cost |-> cost_tracker.total_cost + chunk_cost,
                            requests_made |-> cost_tracker.requests_made + 1]
                    /\ calls' = [calls EXCEPT ![c] =
                           [@ EXCEPT !.i = @ + 1,
                                     !.own_tokens = @ + input_tokens + output_tokens,
                                     !.own_cost = @ + chunk_cost]]
    /\ CostStill

\* one loop pass whose provider call raises: lines 243-249, 280-282
ChunkRaises ==
    /\ \E c \in DOMAIN calls :
          /\ calls[c].pc = "detect"
          /\ calls[c].i < calls[c].n
          /\ calls' = [calls EXCEPT ![c] = [@ EXCEPT !.i = @ + 1, !.failed = @ + 1]]
    /\ UNCHANGED cost_tracker
    /\ CostStill

\* the loop is over and the result is built: lines 376-392
RedactResult ==
    /\ \E c \in DOMAIN calls :
          /\ calls[c].pc = "detect"
          /\ calls[c].i = calls[c].n
          /\ calls' = [calls EXCEPT ![c] =
                 [@ EXCEPT !.pc = "returned",
                           !.processing_cost = cost_tracker.total_cost,
                           !.tokens_used = cost_tracker.input_tokens
                                               + cost_tracker.output_tokens,
                           !.made = @ + 1]]
    /\ UNCHANGED cost_tracker
    /\ CostStill

NextCost == RedactBegin \/ ChunkSucceeds \/ ChunkRaises \/ RedactResult

InitCostOf(callers) ==
    /\ ConfigIdle
    /\ pc = "cost"
    /\ ChunkIdle
    /\ MergeIdle
    /\ DetectIdle
    /\ RiskIdle
    /\ ConstructIdle
    /\ DocumentIdle
    /\ cost_tracker = CostTracker
    /\ calls = [c \in callers |-> IdleCall]

\* one caller, its calls one after another
InitCost == InitCostOf({1})

SpecCost == InitCost /\ [][NextCost]_vars

\* two callers, their calls interleaved in every way
InitCostRace == InitCostOf({1, 2})

SpecCostRace == InitCostRace /\ [][NextCost]_vars

\* the result of caller c accounts for exactly its own successful calls
OwnCost(c) ==
    /\ calls[c].tokens_used = calls[c].own_tokens
    /\ calls[c].processing_cost = calls[c].own_cost

\* C16: with two redact_text calls running concurrently on one instance,
\* each returned result's tokens_used and processing_cost are those of the
\* successful provider calls of that call's own chunks.
C16_ConcurrentCallsKeepOwnCost ==
    \A c \in DOMAIN calls, d \in DOMAIN calls :
        (c # d /\ calls[c].pc = "returned") => OwnCost(c)

\* C17: in a sequence of redact_text calls on one instance, the result of
\* the k-th call counts the provider calls that returned during the k-th
\* call and nothing else, for every k.
C17_EachCallCountsOnlyItself ==
    \A c \in DOMAIN calls :
        \A k \in 1..MaxCalls :
            (calls[c].pc = "returned" /\ calls[c].made = k) => OwnCost(c)

\* a later call of the sequence has returned, one of its provider calls
\* having raised and another returned
C17_Witness ==
    \E c \in DOMAIN calls :
        /\ calls[c].pc = "returned"
        /\ calls[c].made >= 2
        /\ calls[c].failed >= 1
        /\ calls[c].tokens_used > 0

(***************************************************************************)
(* The two risk policies.  _assess_risk_level is given entities_count and  *)
(* the dictionary confidence_scores, of which it reads the keys only.      *)
(* analyze_document_risk counts the detected entities by category into     *)
(* category_counts (a key for every category with at least one entity)     *)
(* and weighs the counts.                                                  *)
(***************************************************************************)
MaxEntitiesCount == 11   \* largest entities_count given to _assess_risk_level
RiskMaxCount == 3        \* most detected entities of one category

\* keys confidence_scores can have
ScoreKeys == {"ssn", "credit_cards", "names", "emails"}

\* high_risk_categories
HighRiskCategories == {"ssn", "credit_cards"}

\* the same policy with the volume test > 10
AssessRiskLevelAboveTen(count, scores) ==
    IF count = 0 THEN "LOW"
    ELSE IF (\E cat \in HighRiskCategories : cat \in scores) \/ count > 10
         THEN "HIGH"
         ELSE IF count >= 5 THEN "MEDIUM" ELSE "LOW"

\* _assess_risk_level
AssessRiskLevel(count, scores) ==
    IF count = 0 THEN "LOW"
    ELSE LET has_high_risk == \E cat \in HighRiskCategories : cat \in scores
         IN  IF has_high_risk \/ count >= 10 THEN "HIGH"
             ELSE IF count >= 5 THEN "MEDIUM"
             ELSE "LOW"

AssessRisk ==
    /\ pc = "assess"
    /\ risk_level' = AssessRiskLevel(entities_count, confidence_scores)
    /\ pc' = "assessed"
    /\ UNCHANGED <<configVars, chunkVars, mergeVars, detectVars, costVars,
                   constructVars, documentVars,
                   entities_count, confidence_scores, category_counts, risk_score>>

\* categories an Azure or pattern-rule entity can have
RiskCategories ==
    {"CreditCardNumber", "PhoneNumber", "Address", "Person", "Email",
     "USPersonalIdentificationNumber"}

\* risk_multipliers
RiskMultipliers ==
    {<<"CreditCardNumber", 5>>, <<"PhoneNumber", 3>>, <<"Address", 4>>,
     <<"Person", 2>>, <<"Email", 2>>}

\* the same lookup with 0 for a category that has no entry
RiskMultiplierOrNothing(category) ==
    IF \E row \in RiskMultipliers : row[1] = category
    THEN (CHOOSE row \in RiskMultipliers : row[1] = category)[2]
    ELSE 0

\* risk_multipliers.get(category, 1)
RiskMultiplier(category) ==
    IF \E row \in RiskMultipliers : row[1] = category
    THEN (CHOOSE row \in RiskMultipliers : row[1] = category)[2]
    ELSE 1

\* sum(count * risk_multipliers.get(category, 1) for category, count in
\* category_counts.items()), over the keys in keys
RECURSIVE RiskScore(_, _)
RiskScore(counts, keys) ==
    IF keys = {} THEN 0
    ELSE LET category == CHOOSE k \in keys : TRUE
         IN  counts[category] * RiskMultiplier(category)
                 + RiskScore(counts, keys \ {category})

\* lines 364-368
RiskLevel(score) ==
    IF score > 20 THEN "HIGH"
    ELSE IF score > 10 THEN "MEDIUM"
    ELSE "LOW"

\* analyze_document_risk from category_counts on (lines 350-368)
AnalyzeDocumentRisk ==
    /\ pc = "analyze"
    /\ risk_score' = RiskScore(category_counts, DOMAIN category_counts)
    /\ risk_level' = RiskLevel(risk_score')
    /\ pc' = "analyzed"
    /\ UNCHANGED <<configVars, chunkVars, mergeVars, detectVars, costVars,
                   constructVars, documentVars,
                   entities_count, confidence_scores, category_counts>>

InitAssess ==
    /\ pc = "assess"
    /\ entities_count \in 0..MaxEntitiesCount
    /\ confidence_scores \in SUBSET ScoreKeys
    /\ category_counts = <<>>

InitAnalyze ==
    /\ pc = "analyze"
    /\ entities_count = 0
    /\ confidence_scores = {}
    /\ category_counts \in
           UNION {[keys -> 1..RiskMaxCount] : keys \in SUBSET RiskCategories}

InitRisk ==
    /\ InitAssess \/ InitAnalyze
    /\ risk_score = 0
    /\ risk_level = ""
    /\ ConfigIdle
    /\ ChunkIdle
    /\ MergeIdle
    /\ DetectIdle
    /\ CostIdle
    /\ ConstructIdle
    /\ DocumentIdle

NextRisk == AssessRisk \/ AnalyzeDocumentRisk

SpecRisk == InitRisk /\ [][NextRisk]_vars

Sensitive == "ssn" \in confidence_scores \/ "credit_cards" \in confidence_scores

\* C18: _assess_risk_level returns LOW for no entity; otherwise HIGH when
\* 'ssn' or 'credit_cards' is among the categories or the count is 10 or
\* more, MEDIUM for 5..9 entities of no such category, LOW for 1..4.
C18_HardPolicyLevels ==
    pc = "assessed" =>
        /\ entities_count = 0 => risk_level = "LOW"
        /\ (entities_count > 0 /\ (Sensitive \/ entities_count >= 10))
               => risk_level = "HIGH"
        /\ (~Sensitive /\ 5 <= entities_count /\ entities_count <= 9)
               => risk_level = "MEDIUM"
        /\ (~Sensitive /\ 1 <= entities_count /\ entities_count <= 4)
               => risk_level = "LOW"

\* ten entities of no sensitive category were assessed
C18_Witness ==
    /\ pc = "assessed"
    /\ entities_count = 10
    /\ ~Sensitive
    /\ risk_level = "HIGH"

CountOf(category) ==
    IF category \in DOMAIN category_counts THEN category_counts[category] ELSE 0

\* C19: risk_score is the sum of count x weight, the weights being
\* CreditCardNumber 5, Address 4, PhoneNumber 3, Person 2, Email 2 and 1
\* for any other category; the level is HIGH iff score > 20, MEDIUM iff
\* 10 < score <= 20, LOW otherwise; no entity gives score 0 and LOW.
C19_WeightedPolicy ==
    pc = "analyzed" =>
        /\ risk_score = 5 * CountOf("CreditCardNumber") + 4 * CountOf("Address")
                          + 3 * CountOf("PhoneNumber") + 2 * CountOf("Person")
                          + 2 * CountOf("Email")
                          + CountOf("USPersonalIdentificationNumber")
        /\ risk_level = "HIGH" <=> risk_score > 20
        /\ risk_level = "MEDIUM" <=> (10 < risk_score /\ risk_score <= 20)
        /\ risk_level = "LOW" <=> risk_score <= 10
        /\ DOMAIN category_counts = {} => (risk_score = 0 /\ risk_level = "LOW")

\* a score of 21 that needs the weight 1 of a category without an entry
C19_Witness ==
    /\ pc = "analyzed"
    /\ CountOf("USPersonalIdentificationNumber") > 0
    /\ risk_score = 21
    /\ risk_level = "HIGH"

(***************************************************************************)
(* Construction of a redactor: GPT4oMiniRedactor.__init__ and              *)
(* AzureAIRedactor.__init__.  A configuration value is a string; None and  *)
(* the empty string are both false in Python and are both "" here.         *)
(***************************************************************************)

\* how many detection calls are made on one instance
MaxDetectCalls == 2

\* values of a setting read with os.getenv: absent or present
Settings == {"", "set"}

\* values of AZURE_OPENAI_ENDPOINT: absent, not https, https
Endpoints == {"", "http://host", "https://host"}

\* s.startswith(prefix), for strings as character sequences
StartsWith(s, prefix) ==
    /\ Len(s) >= Len(prefix)
    /\ SubSeq(s, 1, Len(prefix)) = prefix

\* the endpoints as character sequences
EndpointChars(endpoint) ==
    CASE endpoint = "" -> <<>>
      [] endpoint = "http://host" ->
            <<"h", "t", "t", "p", ":", "/", "/", "h", "o", "s", "t">>
      [] endpoint = "https://host" ->
            <<"h", "t", "t", "p", "s", ":", "/", "/", "h", "o", "s", "t">>

HttpsPrefix == <<"h", "t", "t", "p", "s", ":", "/", "/">>

\* LLMConfig: the fields validate_configuration reads
LLMConfigs ==
    [kind : {"llm"}, api_key : Settings, endpoint : Endpoints,
     deployment_name : Settings]

\* AzureConfig: the fields validate_configuration reads
AzureConfigs ==
    [kind : {"azure"}, text_analytics_endpoint : Settings,
     text_analytics_key : Settings, tenant_id : Settings,
     client_id : Settings, client_secret : Settings]

\* LLMConfig.validate_configuration
ValidateLLMConfiguration(c) ==
    LET missing_fields ==
            {f \in {"api_key", "endpoint", "deployment_name"} : c[f] = ""}
    IN  IF missing_fields # {} THEN FALSE
        ELSE IF ~StartsWith(EndpointChars(c.endpoint), HttpsPrefix) THEN FALSE
        ELSE TRUE

\* AzureConfig.validate_configuration
ValidateAzureConfiguration(c) ==
    LET missing_fields == {f \in {"text_analytics_endpoint"} : c[f] = ""}
        has_api_key == c.text_analytics_key # ""
        has_service_principal ==
            \A f \in {"tenant_id", "client_id", "client_secret"} : c[f] # ""
    IN  IF missing_fields # {} THEN FALSE
        ELSE IF ~(has_api_key \/ has_service_principal) THEN FALSE
        ELSE TRUE

\* self.config.validate_configuration() of either class
ValidateConfiguration(c) ==
    IF c.kind = "llm" THEN ValidateLLMConfiguration(c)
    ELSE ValidateAzureConfiguration(c)

\* a constructor that goes on whatever the validation says
ConstructorNeverRaises(c) == FALSE

\* __init__: if not self.config.validate_configuration(): raise ValueError
ConstructorRaises(c) == ~ValidateConfiguration(c)

\* __init__ up to the check: the ValueError leaves the constructor
ConstructRaise ==
    /\ pc = "construct"
    /\ ConstructorRaises(config)
    /\ pc' = "raised"
    /\ UNCHANGED <<configVars, chunkVars, mergeVars, detectVars, costVars,
                   riskVars, constructVars, documentVars>>

\* __init__ up to the check: the check passes
ConstructValidated ==
    /\ pc = "construct"
    /\ ~ConstructorRaises(config)
    /\ pc' = "validated"
    /\ UNCHANGED <<configVars, chunkVars, mergeVars, detectVars, costVars,
                   riskVars, constructVars, documentVars>>

\* __init__ after the check: self.client = AzureOpenAI(...) or
\* self.config.get_text_analytics_client(); the constructor returns
ConstructClient ==
    /\ pc = "validated"
    /\ client' = IF config.kind = "llm" THEN "AzureOpenAI"
                 ELSE "TextAnalyticsClient"
    /\ pc' = "built"
    /\ UNCHANGED <<configVars, chunkVars, mergeVars, detectVars, costVars,
                   riskVars, config, detect_calls, documentVars>>

\* detect_pii_entities on the instance: one provider call through self.client
DetectProviderCall ==
    /\ pc = "built"
    /\ client # "none"
    /\ Len(detect_calls) < MaxDetectCalls
    /\ detect_calls' = Append(detect_calls, "provider")
    /\ UNCHANGED <<configVars, pc, chunkVars, mergeVars, detectVars, costVars,
                   riskVars, config, client, documentVars>>

\* AzureAIRedactor.detect_pii_entities: self._fallback_detection(chunk)
DetectPatternCall ==
    /\ pc = "built"
    /\ config.kind = "azure"
    /\ Len(detect_calls) < MaxDetectCalls
    /\ detect_calls' = Append(detect_calls, "pattern")
    /\ UNCHANGED <<configVars, pc, chunkVars, mergeVars, detectVars, costVars,
                   riskVars, config, client, documentVars>>

InitConstruct ==
    /\ ConfigIdle
    /\ pc = "construct"
    /\ ChunkIdle
    /\ MergeIdle
    /\ DetectIdle
    /\ CostIdle
    /\ RiskIdle
    /\ config \in LLMConfigs \union AzureConfigs
    /\ client = "none"
    /\ detect_calls = <<>>
    /\ DocumentIdle

NextConstruct ==
    \/ ConstructRaise
    \/ ConstructValidated
    \/ ConstructClient
    \/ DetectProviderCall
    \/ DetectPatternCall

SpecConstruct == InitConstruct /\ [][NextConstruct]_vars

\* C21: under a configuration whose validate_configuration() is false the
\* constructor never gets past its check: no client is ever created, the
\* constructor never returns an instance, and no provider or pattern
\* detection call is made.
C21_NoRedactorUnderInvalidConfiguration ==
    ~ValidateConfiguration(config) =>
        /\ client = "none"
        /\ pc \in {"construct", "raised"}
        /\ detect_calls = <<>>

\* C21: an invalid configuration (an http endpoint with every field set)
\* has made the constructor raise
C21_Witness ==
    /\ pc = "raised"
    /\ config.kind = "llm"
    /\ config.api_key # "" /\ config.deployment_name # ""
    /\ config.endpoint = "http://host"
    /\ client = "none"

(***************************************************************************)
(* The redaction-token table in use: the three styles of                   *)
(* LLMConfig.get_redaction_patterns and the custom_redaction_map of        *)
(* AzureAIRedactor.redact_text.  A category is whatever the JSON answer    *)
(* of the provider held under 'category': a string, or null.               *)
(***************************************************************************)
MaxTokenLen == 2   \* longest text given to a styled redact_text

\* LLMConfig.get_redaction_patterns(), style 'detailed'
DetailedPatterns ==
    {
        <<<<"n", "a", "m", "e", "s">>,
          <<"[", "P", "E", "R", "S", "O", "N", "_", "N", "A", "M", "E", "_", "R", "E", "D", "A", "C", "T", "E", "D", "]">>>>,
        <<<<"p", "h", "o", "n", "e", "_", "n", "u", "m", "b", "e", "r", "s">>,
          <<"[", "P", "H", "O", "N", "E", "_", "N", "U", "M", "B", "E", "R", "_", "R", "E", "D", "A", "C", "T", "E", "D", "]">>>>,
        <<<<"e", "m", "a", "i", "l", "s">>,
          <<"[", "E", "M", "A", "I", "L", "_", "A", "D", "D", "R", "E", "S", "S", "_", "R", "E", "D", "A", "C", "T", "E", "D", "]">>>>,
        <<<<"a", "d", "d", "r", "e", "s", "s", "e", "s">>,
          <<"[", "P", "H", "Y", "S", "I", "C", "A", "L", "_", "A", "D", "D", "R", "E", "S", "S", "_", "R", "E", "D", "A", "C", "T", "E", "D", "]">>>>,
        <<<<"s", "s", "n">>,
          <<"[", "S", "S", "N", "_", "R", "E", "D", "A", "C", "T", "E", "D", "]">>>>,
        <<<<"c", "r", "e", "d", "i", "t", "_", "c", "a", "r", "d", "s">>,
          <<"[", "C", "R", "E", "D", "I", "T", "_", "C", "A", "R", "D", "_", "N", "U", "M", "B", "E", "R", "_", "R", "E", "D", "A", "C", "T", "E", "D", "]">>>>,
        <<<<"d", "a", "t", "e", "s">>,
          <<"[", "D", "A", "T", "E", "_", "R", "E", "D", "A", "C", "T", "E", "D", "]">>>>,
        <<<<"i", "p", "_", "a", "d", "d", "r", "e", "s", "s", "e", "s">>,
          <<"[", "I", "P", "_", "A", "D", "D", "R", "E", "S", "S", "_", "R", "E", "D", "A", "C", "T", "E", "D", "]">>>>}

\* LLMConfig.get_redaction_patterns(), style 'minimal'
MinimalPatterns ==
    {
        <<<<"n", "a", "m", "e", "s">>,
          <<"[", "R", "E", "D", "A", "C", "T", "E", "D", "]">>>>,
        <<<<"p", "h", "o", "n", "e", "_", "n", "u", "m", "b", "e", "r", "s">>,
          <<"[", "R", "E", "D", "A", "C", "T", "E", "D", "]">>>>,
        <<<<"e", "m", "a", "i", "l", "s">>,
          <<"[", "R", "E", "D", "A", "C", "T", "E", "D", "]">>>>,
        <<<<"a", "d", "d", "r", "e", "s", "s", "e", "s">>,
          <<"[", "R", "E", "D", "A", "C", "T", "E", "D", "]">>>>,
        <<<<"s", "s", "n">>,
          <<"[", "R", "E", "D", "A", "C", "T", "E", "D", "]">>>>,
        <<<<"c", "r", "e", "d", "i", "t", "_", "c", "a", "r", "d", "s">>,
          <<"[", "R", "E", "D", "A", "C", "T", "E", "D", "]">>>>,
        <<<<"d", "a", "t", "e", "s">>,
          <<"[", "R", "E", "D", "A", "C", "T", "E", "D", "]">>>>,
        <<<<"i", "p", "_", "a", "d", "d", "r", "e", "s", "s", "e", "s">>,
          <<"[", "R", "E", "D", "A", "C", "T", "E", "D", "]">>>>}

\* values of REDACTION_STYLE; one that names no style is among them
RedactionStyles == {"standard", "detailed", "minimal", "compact"}

\* LLMConfig.get_redaction_patterns
GetRedactionPatterns(redaction_style) ==
    IF redaction_style = "detailed" THEN DetailedPatterns
    ELSE IF redaction_style = "minimal" THEN MinimalPatterns
    ELSE StandardPatterns

\* the Python value None, which is no string: the one element is no character
None == <<"None">>

IsStr(category) == category # None

Redacted == <<"[", "R", "E", "D", "A", "C", "T", "E", "D", "]">>

\* custom_redaction_map arguments: none, an override of a default key, a
\* new key
CustomRedactionMaps ==
    {{}, {<<Ssn, Redacted>>}, {<<Passport, Redacted>>}}

\* redaction_map = default_redaction_map.copy(); redaction_map.update(custom)
RedactionMap(custom_redaction_map) ==
    {row \in DefaultRedactionMap :
        ~\E custom \in custom_redaction_map : custom[1] = row[1]}
        \union custom_redaction_map

\* the table redact_text of the configured redactor looks categories up in
TableInUse(c) ==
    IF c.kind = "llm" THEN GetRedactionPatterns(c.redaction_style)
    ELSE RedactionMap(c.custom_redaction_map)

\* the arguments of dict.get are evaluated before the call: the f-string
\* f'[{entity.category.upper()}_REDACTED]' raises AttributeError for a
\* category without upper()
TokenRaises(entities) ==
    \E k \in 1..Len(entities) : ~IsStr(entities[k].category)

\* the for loop of either redact_text with the table in use
RECURSIVE RedactLoopWith(_, _, _)
RedactLoopWith(table, redacted, sorted_entities) ==
    IF sorted_entities = <<>> THEN redacted
    ELSE LET entity == Head(sorted_entities)
             redaction_token == TokenFrom(table, entity.category)
         IN  RedactLoopWith(table,
                            Replace(redacted, entity.start_pos, entity.end_pos,
                                    redaction_token),
                            Tail(sorted_entities))

\* GPT4oMiniRedactor.redact_text from the sort on, under a redaction style
RedactStyled ==
    /\ pc = "redact_token"
    /\ config.kind = "llm"
    /\ ~TokenRaises(unique_entities)
    /\ redacted_text' = RedactLoopWith(TableInUse(config), text,
                                       SortedForReplacement(unique_entities))
    /\ pc' = "token_redacted"
    /\ UNCHANGED <<configVars, otherVars, chunkVars, all_entities,
                   unique_entities, detectVars>>

\* AzureAIRedactor.redact_text from the sort on, with a custom_redaction_map
RedactCustom ==
    /\ pc = "redact_token"
    /\ config.kind = "azure"
    /\ ~TokenRaises(unique_entities)
    /\ redacted_text' = RedactLoopWith(TableInUse(config), text,
                                       SortedForReplacement(unique_entities))
    /\ pc' = "token_redacted"
    /\ UNCHANGED <<configVars, otherVars, chunkVars, all_entities,
                   unique_entities, detectVars>>

\* either redact_text: the exception of the f-string leaves the method
RedactTokenRaises ==
    /\ pc = "redact_token"
    /\ TokenRaises(unique_entities)
    /\ pc' = "token_raised"
    /\ UNCHANGED <<configVars, otherVars, chunkVars, mergeVars, detectVars>>

\* categories: keys of some table, of none, and a JSON null
TokenCategories == {Ssn, Names, Person, Passport, None}

\* _parse_llm_response keeps entity_data.get('category', '') as it is; the
\* Azure SDK and the pattern rules only give strings
TokenEntities(kind, n) ==
    {e \in [start_pos : 0..n, end_pos : 0..n, confidence : {95},
            category : TokenCategories] :
        /\ e.start_pos < e.end_pos
        /\ kind = "azure" => IsStr(e.category)}

TokenConfigs ==
    [kind : {"llm"}, redaction_style : RedactionStyles] \union
    [kind : {"azure"}, custom_redaction_map : CustomRedactionMaps]

InitToken ==
    /\ text \in PlainTexts(MaxTokenLen)
    /\ chunk_size = 1
    /\ overlap_size = 0
    /\ ChunkIdle
    /\ pc = "redact_token"
    /\ config \in TokenConfigs
    /\ all_entities = <<>>
    /\ \E e \in TokenEntities(config.kind, Len(text)) : unique_entities = <<e>>
    /\ redacted_text = <<>>
    /\ DetectIdle
    /\ CostIdle
    /\ RiskIdle
    /\ client = "none"
    /\ detect_calls = <<>>
    /\ DocumentIdle

NextToken == RedactStyled \/ RedactCustom \/ RedactTokenRaises

SpecToken == InitToken /\ [][NextToken]_vars

\* the token the entity's category stands for under the table in use
ExpectedToken(table, category) ==
    IF \E row \in table : row[1] = category
    THEN (CHOOSE row \in table : row[1] = category)[2]
    ELSE <<"[">> \o Upper(category)
             \o <<"_", "R", "E", "D", "A", "C", "T", "E", "D", "]">>

\* C22: redact_text completes for every entity, and the entity's span is
\* replaced by the token of its category in the table in use when the
\* category is a key of the table, by '[' + UPPERCASE(category) +
\* '_REDACTED]' when it is not.
C22_UnknownCategoryGetsSynthesizedToken ==
    pc # "redact_token" =>
        /\ pc = "token_redacted"
        /\ LET entity == unique_entities[1]
           IN  redacted_text =
                   SubSeq(text, 1, entity.start_pos)
                       \o ExpectedToken(TableInUse(config), entity.category)
                       \o SubSeq(text, entity.end_pos + 1, Len(text))

\* C22 for the categories that are strings
StringCategoryGetsItsToken ==
    (pc # "redact_token" /\ IsStr(unique_entities[1].category)) =>
        /\ pc = "token_redacted"
        /\ LET entity == unique_entities[1]
           IN  redacted_text =
                   SubSeq(text, 1, entity.start_pos)
                       \o ExpectedToken(TableInUse(config), entity.category)
                       \o SubSeq(text, entity.end_pos + 1, Len(text))

\* a string category outside the table has got its synthesized token
StringCategoryWitness ==
    /\ pc = "token_redacted"
    /\ unique_entities[1].category = Passport
    /\ config.kind = "llm"
    /\ config.redaction_style = "minimal"

(***************************************************************************)
(* The order of the list detect_pii_entities returns.                      *)
(***************************************************************************)
Ascending(list) ==
    \A k \in 1..Len(list) - 1 : list[k].start_pos <= list[k + 1].start_pos

\* C23: the entity list detect_pii_entities returns is ordered by ascending
\* start offset, for the LLM merge, the Azure hybrid merge and the
\* pattern-rule deduplication alike.
C23_ReturnedEntitiesAscend ==
    (Merged \/ Detected) => Ascending(unique_entities)

\* C23 for _deduplicate_entities and the pattern-rule deduplication
OtherMergesAscend ==
    pc \in {"deduplicated", "pattern_deduped"} => Ascending(unique_entities)

(***************************************************************************)
(* Ties of confidence in the Azure hybrid merge.                           *)
(***************************************************************************)

\* candidate j is one of two intersecting candidates of equal confidence,
\* and the one that starts first
StartsFirstOfATie(j) ==
    \E k \in 1..Len(all_entities) :
        /\ Intersect(all_entities[j], all_entities[k])
        /\ all_entities[j].confidence = all_entities[k].confidence
        /\ all_entities[j].start_pos < all_entities[k].start_pos

\* every candidate that touches candidate j is the same entity, has a lower
\* confidence, or has the same confidence and starts later: in the order
\* confidence descending, then start ascending, nothing accepted before j
\* touches j
FirstInTieOrder(j) ==
    \A m \in 1..Len(all_entities) :
        Intersect(all_entities[m], all_entities[j]) =>
            \/ all_entities[m] = all_entities[j]
            \/ all_entities[m].confidence < all_entities[j].confidence
            \/ /\ all_entities[m].confidence = all_entities[j].confidence
               /\ all_entities[m].start_pos > all_entities[j].start_pos

\* C24: in the Azure hybrid merge, of two overlapping candidates of equal
\* confidence the one with the smaller start offset is the one kept,
\* wherever the two stand in the candidate list (stated for a candidate
\* that no candidate earlier in the order confidence descending, start
\* ascending touches).
C24_TieKeepsTheEarlierStart ==
    pc = "azure_merged" =>
        \A j \in 1..Len(all_entities) :
            (StartsFirstOfATie(j) /\ FirstInTieOrder(j))
                => InList(all_entities[j], unique_entities)

(***************************************************************************)
(* The pattern-rule detectors: DemoAzureAIRedactor.detect_pii_entities and *)
(* AzureAIRedactor._fallback_detection up to their deduplication.          *)
(*                                                                         *)
(* A pattern of the tables is [category, kind, groups]: kind "contextual"  *)
(* for a pattern that begins with a label ((?:ssn|social\s*security),      *)
(* (?:phone|tel|mobile|cell), ...) and captures what follows it, "plain"   *)
(* for one without a label; groups is the number of capture groups of the  *)
(* regular expression.  Patterns of one category that agree in both are    *)
(* one row.  The standard phone pattern is plain and has three groups:     *)
(* the area code, the exchange and the line number.                        *)
(***************************************************************************)
PatternMaxLen == 3       \* longest text given to a pattern-rule detector
MaxPatternMatches == 2   \* most matches the patterns find in it

\* confidence_score of the demo detector, in percent: 0.95 if match.groups()
\* else 0.9
GroupsConfidence == 95
NoGroupsConfidence == 90

\* self.custom_patterns of AzureAIRedactor
CustomPatterns ==
    {
        [category |-> <<"c", "r", "e", "d", "i", "t", "_", "c", "a", "r", "d">>,
         kind |-> "plain", groups |-> 0],
        [category |-> <<"c", "r", "e", "d", "i", "t", "_", "c", "a", "r", "d">>,
         kind |-> "contextual", groups |-> 1],
        [category |-> <<"p", "h", "o", "n", "e">>,
         kind |-> "plain", groups |-> 3],
        [category |-> <<"p", "h", "o", "n", "e">>,
         kind |-> "plain", groups |-> 0],
        [category |-> <<"p", "h", "o", "n", "e">>,
         kind |-> "contextual", groups |-> 1],
        [category |-> <<"s", "s", "n">>,
         kind |-> "plain", groups |-> 0],
        [category |-> <<"s", "s", "n">>,
         kind |-> "contextual", groups |-> 1],
        [category |-> <<"e", "m", "a", "i", "l">>,
         kind |-> "plain", groups |-> 0],
        [category |-> <<"e", "m", "a", "i", "l">>,
         kind |-> "contextual", groups |-> 1],
        [category |-> <<"a", "d", "d", "r", "e", "s", "s">>,
         kind |-> "plain", groups |-> 0],
        [category |-> <<"a", "d", "d", "r", "e", "s", "s">>,
         kind |-> "contextual", groups |-> 1],
        [category |-> <<"n", "a", "m", "e", "_", "c", "o", "n", "t", "e", "x", "t">>,
         kind |-> "contextual", groups |-> 1]}

\* self.patterns of DemoAzureAIRedactor
DemoPatterns ==
    {
        [category |-> <<"P", "e", "r", "s", "o", "n">>,
         kind |-> "plain", groups |-> 0],
        [category |-> <<"P", "e", "r", "s", "o", "n">>,
         kind |-> "contextual", groups |-> 1],
        [category |-> <<"P", "h", "o", "n", "e", "N", "u", "m", "b", "e", "r">>,
         kind |-> "plain", groups |-> 3],
        [category |-> <<"P", "h", "o", "n", "e", "N", "u", "m", "b", "e", "r">>,
         kind |-> "plain", groups |-> 0],
        [category |-> <<"P", "h", "o", "n", "e", "N", "u", "m", "b", "e", "r">>,
         kind |-> "contextual", groups |-> 1],
        [category |-> <<"A", "d", "d", "r", "e", "s", "s">>,
         kind |-> "plain", groups |-> 0],
        [category |-> <<"A", "d", "d", "r", "e", "s", "s">>,
         kind |-> "contextual", groups |-> 1],
        [category |-> <<"C", "r", "e", "d", "i", "t", "C", "a", "r", "d", "N", "u", "m", "b", "e", "r">>,
         kind |-> "plain", groups |-> 0],
        [category |-> <<"C", "r", "e", "d", "i", "t", "C", "a", "r", "d", "N", "u", "m", "b", "e", "r">>,
         kind |-> "contextual", groups |-> 1],
        [category |-> <<"E", "m", "a", "i", "l">>,
         kind |-> "plain", groups |-> 0],
        [category |-> <<"E", "m", "a", "i", "l">>,
         kind |-> "contextual", groups |-> 1],
        [category |-> <<"I", "P", "A", "d", "d", "r", "e", "s", "s">>,
         kind |-> "plain", groups |-> 0],
        [category |-> <<"P", "e", "r", "s", "o", "n", "T", "y", "p", "e">>,
         kind |-> "plain", groups |-> 0],
        [category |-> <<"U", "S", "P", "e", "r", "s", "o", "n", "a", "l", "I", "d", "e", "n", "t", "i", "f", "i", "c", "a", "t", "i", "o", "n", "N", "u", "m", "b", "e", "r">>,
         kind |-> "plain", groups |-> 0],
        [category |-> <<"U", "S", "P", "e", "r", "s", "o", "n", "a", "l", "I", "d", "e", "n", "t", "i", "f", "i", "c", "a", "t", "i", "o", "n", "N", "u", "m", "b", "e", "r">>,
         kind |-> "contextual", groups |-> 1]}

\* what pattern.finditer(text) can give for one pattern in a text of n
\* characters: a non-empty span and, for a pattern with groups, the span of
\* group 1 inside it.  The group of a contextual pattern follows the label
\* and ends the match; group 1 of the standard phone pattern is followed by
\* the other digits.
MatchesOf(pattern, n) ==
    {m \in [start : 0..n, end : 0..n, category : {pattern.category},
            kind : {pattern.kind}, group : {<<>>} \cup Spans(n)] :
        /\ m.start < m.end
        /\ pattern.groups = 0 <=> m.group = <<>>
        /\ m.group # <<>> =>
              IF pattern.kind = "contextual"
              THEN m.start < m.group[1] /\ m.group[2] = m.end
              ELSE m.start <= m.group[1] /\ m.group[2] < m.end}

MatchesOfTable(table, n) == UNION {MatchesOf(pattern, n) : pattern \in table}

\* lines 88-111 of DemoAzureAIRedactor.detect_pii_entities: the entity made
\* from one match
DemoEntity(t, match) ==
    LET full_match == PySlice(t, match.start, match.end)
        pii_text == IF match.group # <<>>
                    THEN PySlice(t, match.group[1], match.group[2])
                    ELSE full_match
        offset == IF match.group # <<>>
                  THEN match.start + Find(full_match, pii_text)
                  ELSE match.start
    IN  [offset |-> offset, length |-> Len(pii_text),
         confidence_score |-> IF match.group # <<>> THEN GroupsConfidence
                              ELSE NoGroupsConfidence,
         category |-> match.category]

\* DemoAzureAIRedactor.detect_pii_entities: all_entities is the local
\* entities, one entity per match
DemoDetect ==
    /\ pc = "demo_detect"
    /\ LET entities == [k \in 1..Len(matches) |-> DemoEntity(text, matches[k])]
       IN  /\ all_entities' = LLMList(entities)
           /\ unique_entities' = LLMList(PatternDedup(entities))
    /\ pc' = "demo_detected"
    /\ UNCHANGED <<configVars, otherVars, chunkVars, redacted_text, detectVars>>

\* AzureAIRedactor._fallback_detection, likewise
FallbackDetect ==
    /\ pc = "fallback_detect"
    /\ LET entities == [k \in 1..Len(matches) |-> FallbackEntity(text, matches[k])]
       IN  /\ all_entities' = LLMList(entities)
           /\ unique_entities' = LLMList(PatternDedup(entities))
    /\ pc' = "fallback_detected"
    /\ UNCHANGED <<configVars, otherVars, chunkVars, redacted_text, detectVars>>

MatchLists(table, n) ==
    UNION {[1..k -> MatchesOfTable(table, n)] : k \in 0..MaxPatternMatches}

InitPattern ==
    /\ text \in PlainTexts(PatternMaxLen)
    /\ chunk_size = 1
    /\ overlap_size = 0
    /\ ChunkIdle
    /\ MergeIdle
    /\ confidence_threshold = DefaultThreshold
    /\ chunk_i = 0
    /\ provider_log = <<>>
    /\ pii = <<0, 0>>
    /\ offset_adjustment = 0
    /\ \/ pc = "demo_detect" /\ matches \in MatchLists(DemoPatterns, Len(text))
       \/ pc = "fallback_detect"
              /\ matches \in MatchLists(CustomPatterns, Len(text))
    /\ OtherIdle

NextPattern == DemoDetect \/ FallbackDetect

SpecPattern == InitPattern /\ [][NextPattern]_vars

PatternDetected == pc \in {"demo_detected", "fallback_detected"}

\* C25: in both pattern-rule detectors every entity of a contextual pattern
\* has a strictly higher confidence than every entity of a plain pattern,
\* and the entities of one kind all have the same confidence.
C25_ContextualOutranksPlain ==
    PatternDetected =>
        \A j \in 1..Len(matches), k \in 1..Len(matches) :
            /\ (matches[j].kind = "contextual" /\ matches[k].kind = "plain")
                  => all_entities[j].confidence > all_entities[k].confidence
            /\ matches[j].kind = matches[k].kind
                  => all_entities[j].confidence = all_entities[k].confidence

\* C26: the entity made from a match of a plain pattern, the standard phone
\* pattern included, spans the whole match.
C26_PlainMatchIsTheWholeMatch ==
    PatternDetected =>
        \A k \in 1..Len(matches) :
            matches[k].kind = "plain" =>
                /\ all_entities[k].start_pos = matches[k].start
                /\ all_entities[k].end_pos = matches[k].end

\* C27: the entity made from a match of a contextual pattern spans the
\* captured group where it was matched, so it holds no character of the
\* label, also when the captured text occurs earlier in the full match.
C27_ContextualEntityIsTheGroup ==
    PatternDetected =>
        \A k \in 1..Len(matches) :
            matches[k].kind = "contextual" =>
                /\ all_entities[k].start_pos = matches[k].group[1]
                /\ all_entities[k].end_pos = matches[k].group[2]

\* C27 where the captured text occurs nowhere earlier in the full match
GroupIsFoundWhereItFirstOccurs ==
    PatternDetected =>
        \A k \in 1..Len(matches) :
            (/\ matches[k].kind = "contextual"
             /\ Find(PySlice(text, matches[k].start, matches[k].end),
                     PySlice(text, matches[k].group[1], matches[k].group[2]))
                    = matches[k].group[1] - matches[k].start) =>
                /\ all_entities[k].start_pos = matches[k].group[1]
                /\ all_entities[k].end_pos = matches[k].group[2]

(***************************************************************************)
(* The merge routines and the order of their candidate list.               *)
(***************************************************************************)
Elements(list) == {list[k] : k \in 1..Len(list)}

\* C28: the set of entities _deduplicate_entities and the Azure hybrid
\* merge return depends only on the set of candidates: the same candidates
\* listed in any other order give the same set of surviving entities.
C28_MergeIgnoresListOrder ==
    /\ pc = "deduplicated" =>
          \A other \in Orderings(all_entities) :
              Elements(DeduplicateEntities(other)) = Elements(unique_entities)
    /\ pc = "azure_merged" =>
          \A other \in Orderings(all_entities) :
              Elements(LLMList(AzureMerge(AzureList(other))))
                  = Elements(unique_entities)

\* C28 for candidate lists without a tie: no two intersecting candidates
\* of equal confidence
NoTie ==
    \A j \in 1..Len(all_entities), k \in 1..Len(all_entities) :
        (all_entities[j] # all_entities[k]
         /\ Intersect(all_entities[j], all_entities[k]))
            => all_entities[j].confidence # all_entities[k].confidence

AzureMergeIgnoresListOrderWithoutTies ==
    (pc = "azure_merged" /\ NoTie) =>
        \A other \in Orderings(all_entities) :
            Elements(LLMList(AzureMerge(AzureList(other))))
                = Elements(unique_entities)

(***************************************************************************)
(* AzureDocxProcessor.process_document and AzurePdfProcessor               *)
(* .process_document: redact_text on the text of the document, then        *)
(* analyze_document_risk on the same text.  Each of the two runs its own   *)
(* detect_pii_entities, so the provider is called once more for the risk   *)
(* analysis.  The text of a document is never empty (every paragraph and   *)
(* every page adds a line break) and here it is one chunk of max_chars.    *)
(***************************************************************************)
ProcessMaxLen == 2       \* longest document text
ProcessMaxMatches == 1   \* most regex matches in it

\* what one provider call on the whole text can do: raise or answer
ProviderOutcomes ==
    {Raised} \cup {Returned(response) : response \in AzureResponses(0, text)}

\* AzureAIRedactor.detect_pii_entities on a text of one chunk, the provider
\* call ending as outcome says: lines 100-170
AzureDetectPII(outcome) ==
    LET azure_entities ==
            IF outcome.raised THEN <<>>
            ELSE AzureChunkEntities(outcome.response, 0)
        regex_entities == FallbackDetection(text, matches)
    IN  AzureMerge(azure_entities \o regex_entities)

\* category_counts of analyze_document_risk (lines 336-343)
CategoryCounts(entities) ==
    [category \in {entities[k].category : k \in 1..Len(entities)} |->
        Cardinality({k \in 1..Len(entities) : entities[k].category = category})]

\* process_document: redaction_result = self.redactor.redact_text(full_text)
ProcessRedact ==
    /\ pc = "process"
    /\ \E outcome \in ProviderOutcomes :
          LET entities == AzureDetectPII(outcome)
          IN  /\ unique_entities' = LLMList(entities)
              /\ redacted_text' = AzureRedactedText(text, entities)
              /\ provider_log' = Append(provider_log, outcome)
    /\ pc' = "process_redacted"
    /\ UNCHANGED <<configVars, otherVars, chunkVars, all_entities,
                   confidence_threshold, chunk_i, pii, offset_adjustment,
                   matches>>

\* process_document: risk_analysis =
\* self.redactor.analyze_document_risk(full_text); entities_count is
\* risk_analysis['total_entities'], category_counts is
\* risk_analysis['category_breakdown']
ProcessAnalyze ==
    /\ pc = "process_redacted"
    /\ \E outcome \in ProviderOutcomes :
          LET entities == AzureDetectPII(outcome)
          IN  /\ entities_count' = Len(entities)
              /\ category_counts' = CategoryCounts(entities)
              /\ provider_log' = Append(provider_log, outcome)
    /\ pc' = "processed"
    /\ UNCHANGED <<configVars, chunkVars, mergeVars, confidence_threshold,
                   chunk_i, pii, offset_adjustment, matches, costVars,
                   constructVars, documentVars, confidence_scores, risk_score,
                   risk_level>>

InitProcess ==
    /\ text \in {t \in PlainTexts(ProcessMaxLen) : Len(t) > 0}
    /\ chunk_size = 1
    /\ overlap_size = 0
    /\ confidence_threshold \in Thresholds
    /\ pii \in Spans(Len(text)) \cup {<<0, 0>>}
    /\ matches \in UNION {[1..n -> MatchesIn(Len(text))] :
                             n \in 0..ProcessMaxMatches}
    /\ pc = "process"
    /\ ChunkIdle
    /\ MergeIdle
    /\ chunk_i = 0
    /\ provider_log = <<>>
    /\ offset_adjustment = 0
    /\ OtherIdle

NextProcess == ProcessRedact \/ ProcessAnalyze

SpecProcess == InitProcess /\ [][NextProcess]_vars

\* the entries of the result: 'entities_found' and the categories of
\* 'entity_details'
RiskDescribesRedacted ==
    /\ entities_count = Len(unique_entities)
    /\ category_counts = CategoryCounts(unique_entities)

\* C29: in a successful result of process_document the risk analysis
\* describes the entities that were redacted: total_entities equals
\* entities_found and the category breakdown counts the redacted entities,
\* also when the provider fails on some of its calls.
C29_RiskAnalysisDescribesRedactedEntities ==
    pc = "processed" => RiskDescribesRedacted

\* C29 where the two provider calls end the same way
RiskDescribesRedactedWhenProviderRepeats ==
    (pc = "processed" /\ provider_log[1] = provider_log[2])
        => RiskDescribesRedacted

(***************************************************************************)
(* The tokens the document processors of the LLM redactor write:           *)
(* DocxProcessor._apply_docx_redactions and                                *)
(* EnhancedPdfProcessor._apply_redaction_rectangles, after redact_text.    *)
(* document_output is the token written for each entity of                 *)
(* redaction_result.entities_found, in order.                              *)
(***************************************************************************)

\* redaction_patterns.get(entity.category, '[REDACTED]')
DocxToken(table, category) ==
    IF \E row \in table : row[1] = category
    THEN (CHOOSE row \in table : row[1] = category)[2]
    ELSE Redacted

\* replacement_text = f"[{category.upper()}_REDACTED]"
PdfToken(category) ==
    <<"[">> \o Upper(category)
        \o <<"_", "R", "E", "D", "A", "C", "T", "E", "D", "]">>

\* _apply_docx_redactions: the pattern of each entity
ApplyDocxRedactions ==
    /\ pc = "token_redacted"
    /\ LET redaction_patterns == GetRedactionPatterns(config.redaction_style)
       IN  document_output' =
               [k \in 1..Len(unique_entities) |->
                   DocxToken(redaction_patterns, unique_entities[k].category)]
    /\ pc' = "docx_written"
    /\ UNCHANGED <<configVars, chunkVars, mergeVars, detectVars, costVars,
                   riskVars, constructVars>>

\* _apply_redaction_rectangles: the replacement text of each location
ApplyRedactionRectangles ==
    /\ pc = "token_redacted"
    /\ document_output' =
           [k \in 1..Len(unique_entities) |->
               PdfToken(unique_entities[k].category)]
    /\ pc' = "pdf_written"
    /\ UNCHANGED <<configVars, chunkVars, mergeVars, detectVars, costVars,
                   riskVars, constructVars>>

\* a document of one entity under every style; the category is a string,
\* redact_text having returned
InitDocument ==
    /\ InitToken
    /\ config.kind = "llm"
    /\ IsStr(unique_entities[1].category)

NextDocument == RedactStyled \/ ApplyDocxRedactions \/ ApplyRedactionRectangles

SpecDocument == InitDocument /\ [][NextDocument]_vars

\* C30: the token a document processor writes for an entity is the token
\* redact_text has put in redacted_text for it, under every redaction
\* style.
C30_DocumentTokenIsTheRedactTextToken ==
    pc \in {"docx_written", "pdf_written"} =>
        LET entity == unique_entities[1]
        IN  redacted_text =
                SubSeq(text, 1, entity.start_pos)
                    \o document_output[1]
                    \o SubSeq(text, entity.end_pos + 1, Len(text))

\* C30 for the DOCX processor and the categories of the table
DocxTokenOfATableCategory ==
    (pc = "docx_written" /\ unique_entities[1].category \in {Ssn, Names}) =>
        LET entity == unique_entities[1]
        IN  redacted_text =
                SubSeq(text, 1, entity.start_pos)
                    \o document_output[1]
                    \o SubSeq(text, entity.end_pos + 1, Len(text))

====
